---- MODULE Spec2Model ----
(***************************************************************************)
(* Audio2Face inference server: session pool, per-connection dispatcher,   *)
(* session PushAudio / flush pipeline and StartSession validation.         *)
(* Sources: audio2face-sdk/source/inference-server/{main.cpp,              *)
(* inference_sessions.cpp, inference_sessions.h, websocket_server.cpp}.    *)
(***************************************************************************)
EXTENDS Integers, Sequences, FiniteSets, TLC

(***************************************************************************)
(* Strings are sequences of one-character strings, so that the              *)
(* canonicalisation routines can be computed character by character.       *)
(***************************************************************************)
UpperChars == <<"A","B","C","D","E","F","G","H","I","J","K","L","M",
                "N","O","P","Q","R","S","T","U","V","W","X","Y","Z">>

LowerChars == <<"a","b","c","d","e","f","g","h","i","j","k","l","m",
                "n","o","p","q","r","s","t","u","v","w","x","y","z">>

DigitChars == <<"0","1","2","3","4","5","6","7","8","9">>

InSeq(c, s) == \E i \in 1..Len(s) : s[i] = c

\* std::tolower on one character
ToLowerChar(c) ==
  IF InSeq(c, UpperChars)
  THEN LowerChars[CHOOSE i \in 1..Len(UpperChars) : UpperChars[i] = c]
  ELSE c

\* std::isspace
IsSpaceChar(c) == c \in {" ", "\t", "\n", "\r"}

\* std::isalnum
IsAlnumChar(c) == InSeq(c, UpperChars) \/ InSeq(c, LowerChars) \/ InSeq(c, DigitChars)

\* main.cpp LowerAscii
LowerAscii(s) == [i \in 1..Len(s) |-> ToLowerChar(s[i])]

\* The build is the POSIX one: the _WIN32 branch of CanonicalizePath is compiled out.
IsWin32 == FALSE

RECURSIVE TrimBack(_)
\* main.cpp CanonicalizePath, the first while loop: drop trailing '/' and whitespace
TrimBack(s) ==
  IF s # <<>> /\ (s[Len(s)] = "/" \/ IsSpaceChar(s[Len(s)]))
  THEN TrimBack(SubSeq(s, 1, Len(s) - 1))
  ELSE s

RECURSIVE TrimFront(_)
\* main.cpp CanonicalizePath, the second while loop: drop leading whitespace
TrimFront(s) ==
  IF s # <<>> /\ IsSpaceChar(s[1])
  THEN TrimFront(Tail(s))
  ELSE s

\* main.cpp CanonicalizePath, the final if: strip one leading "./"
StripDotSlash(s) ==
  IF Len(s) >= 2 /\ s[1] = "." /\ s[2] = "/" THEN SubSeq(s, 3, Len(s)) ELSE s

\* main.cpp CanonicalizePath, the for loop: backslash to slash (and tolower on Windows)
SlashChars(s) ==
  [i \in 1..Len(s) |->
     LET c == IF s[i] = "\\" THEN "/" ELSE s[i]
     IN  IF IsWin32 THEN ToLowerChar(c) ELSE c]

CanonicalizePath(s) == StripDotSlash(TrimFront(TrimBack(SlashChars(s))))

RECURSIVE KeepAlnum(_)
KeepAlnum(s) ==
  IF s = <<>> THEN <<>>
  ELSE IF IsAlnumChar(s[1]) THEN <<s[1]>> \o KeepAlnum(Tail(s))
       ELSE KeepAlnum(Tail(s))

\* main.cpp CanonicalizeExecutionOption
CanonicalizeExecutionOption(s) == KeepAlnum(LowerAscii(s))

(***************************************************************************)
(* JSON values: [t |-> tag, v |-> value].  "absent" stands for a key that  *)
(* the object does not contain.                                             *)
(***************************************************************************)
Absent == [t |-> "absent", v |-> 0]
JInt(n) == [t |-> "int", v |-> n]
JStr(s) == [t |-> "str", v |-> s]
JBool(b) == [t |-> "bool", v |-> b]
JFloat == [t |-> "float", v |-> 0]
JRate(n, d) == [t |-> "obj", v |-> [numerator |-> n, denominator |-> d]]
JOpts(g, e) == [t |-> "obj", v |-> [use_gpu_solver |-> g, execution_option |-> e]]

Contains(j) == j.t # "absent"

\* The keys of a StartSession message that validation reads
Req(model, fps, frameRate, options) ==
  [model |-> model, fps |-> fps, frame_rate |-> frameRate, options |-> options]

NoHints == Req(Absent, Absent, Absent, Absent)

(***************************************************************************)
(* Server configuration (ServerConfig defaults, as advertised by           *)
(* DescribeSessionStarted).                                                 *)
(***************************************************************************)
ServerModel == <<"d", "/", "m">>
ServerExecutionOption == <<"S","k","i","n","T","o","n","g","u","e">>
ServerUseGpuSolver == TRUE
FpsNumerator == 60
FpsDenominator == 1
SamplingRate == 16000

\* SessionContext::DescribeSessionStarted: the fields validation reads
DescribeSessionStarted ==
  [model |-> JStr(ServerModel),
   frame_rate |-> JRate(JInt(FpsNumerator), JInt(FpsDenominator)),
   options |-> JOpts(JBool(ServerUseGpuSolver), JStr(ServerExecutionOption))]

\* ValidateStartSessionRequest was not called (yet)
NotValidated == [ok |-> FALSE, err |-> "not validated"]

Ok == [ok |-> TRUE, err |-> ""]
Fail(msg) == [ok |-> FALSE, err |-> msg]

\* main.cpp TryParseFrameRate: [ok, num, den, err]
TryParseFrameRate(v) ==
  IF v.t = "int"
  THEN IF v.v <= 0
       THEN [ok |-> FALSE, num |-> 0, den |-> 0, err |-> "fps must be > 0"]
       ELSE [ok |-> TRUE, num |-> v.v, den |-> 1, err |-> ""]
  ELSE IF v.t = "obj"
  THEN IF ~Contains(v.v.numerator) \/ ~Contains(v.v.denominator)
       THEN [ok |-> FALSE, num |-> 0, den |-> 0,
             err |-> "frame_rate must contain numerator and denominator"]
       ELSE IF v.v.numerator.t # "int" \/ v.v.denominator.t # "int"
       THEN [ok |-> FALSE, num |-> 0, den |-> 0,
             err |-> "frame_rate numerator/denominator must be integers"]
       ELSE IF v.v.numerator.v <= 0 \/ v.v.denominator.v <= 0
       THEN [ok |-> FALSE, num |-> 0, den |-> 0,
             err |-> "frame_rate numerator/denominator must be > 0"]
       ELSE [ok |-> TRUE, num |-> v.v.numerator.v, den |-> v.v.denominator.v, err |-> ""]
  ELSE [ok |-> FALSE, num |-> 0, den |-> 0,
        err |-> "fps must be an integer or an object {numerator,denominator}"]

\* ValidateStartSessionRequest, the "model" block
ValidateModel(request, started) ==
  IF ~Contains(request.model) THEN Ok
  ELSE IF request.model.t # "str" THEN Fail("StartSession.model must be a string")
  ELSE LET reqModel == CanonicalizePath(request.model.v)
           actualModel == CanonicalizePath(started.model.v)
       IN  IF actualModel # <<>> /\ reqModel # actualModel
           THEN Fail("Requested model does not match server model")
           ELSE Ok

\* The value the fps block parses: frame_rate when present, else fps
FrameRateValueOf(request) ==
  IF Contains(request.frame_rate) THEN request.frame_rate ELSE request.fps

\* ValidateStartSessionRequest, the "fps"/"frame_rate" block
ValidateFrameRate(request, started) ==
  IF ~(Contains(request.fps) \/ Contains(request.frame_rate)) THEN Ok
  ELSE LET p == TryParseFrameRate(FrameRateValueOf(request))
           actualNum == started.frame_rate.v.numerator.v
           actualDen == started.frame_rate.v.denominator.v
       IN  IF ~p.ok THEN Fail(p.err)
           ELSE IF p.num # actualNum \/ p.den # actualDen
           THEN Fail("Requested frame_rate " \o ToString(p.num) \o "/" \o ToString(p.den)
                     \o " does not match server " \o ToString(actualNum) \o "/"
                     \o ToString(actualDen))
           ELSE Ok

\* ValidateStartSessionRequest, the "options" block
ValidateOptions(request, started) ==
  IF ~Contains(request.options) THEN Ok
  ELSE IF request.options.t # "obj" THEN Fail("StartSession.options must be an object")
  ELSE LET reqOpt == request.options.v
           actualOpt == started.options.v
           gpu == IF ~Contains(reqOpt.use_gpu_solver) THEN Ok
                  ELSE IF reqOpt.use_gpu_solver.t # "bool"
                  THEN Fail("options.use_gpu_solver must be boolean")
                  ELSE IF reqOpt.use_gpu_solver.v # actualOpt.use_gpu_solver.v
                  THEN Fail("options.use_gpu_solver does not match server")
                  ELSE Ok
           exec == IF ~Contains(reqOpt.execution_option) THEN Ok
                   ELSE IF reqOpt.execution_option.t # "str"
                   THEN Fail("options.execution_option must be a string")
                   ELSE LET reqExec == CanonicalizeExecutionOption(reqOpt.execution_option.v)
                            actualExec ==
                              CanonicalizeExecutionOption(actualOpt.execution_option.v)
                        IN  IF actualExec # <<>> /\ reqExec # actualExec
                            THEN Fail("options.execution_option does not match server")
                            ELSE Ok
       IN  IF ~gpu.ok THEN gpu ELSE exec

\* main.cpp ValidateStartSessionRequest: the first failing block decides
ValidateStartSessionRequest(request, started) ==
  LET m == ValidateModel(request, started)
      f == ValidateFrameRate(request, started)
      o == ValidateOptions(request, started)
  IN  IF ~m.ok THEN m ELSE IF ~f.ok THEN f ELSE o


(***************************************************************************)
(* Model bounds.                                                            *)
(***************************************************************************)
\* Connection workers that can be alive at the same time
NConns == 2
\* ServerConfig::maxSessions as run here
MaxSessions == 1

\* ServerConfig::maxSessions when two sessions are to run side by side
PairSessions == 2
Conns == 1..NConns
\* "no session": std::nullopt for sessionIndex, nullptr for _wsSocket
None == -1

VARIABLES
  freeIndices,   \* SessionPool::_freeIndices (a stack, top at the end)
  sess,          \* SessionPool::_sessions: the mutable fields of each SessionContext
  pc,            \* where each connection worker is in HandleClient
  sessionIndex,  \* HandleClient's local sessionIndex
  idx,           \* the index an Acquire / Release in progress works on
  after,         \* what HandleClient does when the Release in progress returns
  cur,           \* the frame the worker is handling
  reply,         \* the SendFrame calls made while handling cur (run-length coded)
  sockOk,        \* whether sends on the connection's socket still succeed
  wire,          \* history of the connection's outbound stream (summary)
  crashed,       \* an exception left a worker thread: std::terminate
  vReq, vRes     \* a function checked on its own (StartSession validation, the frame
                 \* codec): its input and its result

poolVars == <<freeIndices, sess>>
connVars == <<pc, sessionIndex, idx, after, cur, reply, sockOk, wire, crashed>>
valVars == <<vReq, vRes>>
vars == <<freeIndices, sess, pc, sessionIndex, idx, after, cur, reply, sockOk, wire,
          crashed, vReq, vRes>>

\* The indices of SessionPool::_sessions
Sessions == DOMAIN sess

(***************************************************************************)
(* Outbound messages.  An entry of reply is one SendFrame call, or a run   *)
(* of SendFrame calls for binary frames with consecutive frameIndex values *)
(* (first..last) that had the same outcome.                                 *)
(***************************************************************************)
TextMsg(type, text, ok) ==
  [op |-> "Text", type |-> type, text |-> text, first |-> 0, last |-> 0, ok |-> ok]
CtlMsg(op, ok) ==
  [op |-> op, type |-> "", text |-> "", first |-> 0, last |-> 0, ok |-> ok]
BinMsg(frameIndex, ok) ==
  [op |-> "Binary", type |-> "Frame", text |-> "", first |-> frameIndex,
   last |-> frameIndex, ok |-> ok]

\* Append one SendFrame call to a log, extending a run of consecutive binary frames
AppendMsg(log, m) ==
  IF /\ log # <<>>
     /\ m.op = "Binary"
     /\ log[Len(log)].op = "Binary"
     /\ log[Len(log)].ok = m.ok
     /\ log[Len(log)].last + 1 = m.first
  THEN [log EXCEPT ![Len(log)].last = m.last]
  ELSE Append(log, m)

\* History summary of a connection's outbound stream:
\*   phase    last session-control message delivered ("none" before any)
\*   nStarted SessionStarted messages sent since the connection last acquired
\*   lastBin  frameIndex of the last binary frame delivered since then (-1: none)
\*   inOrder  every binary frame delivered so far had a frameIndex above the one
\*            delivered before it, the first one since the acquisition had 0
\*   nPush    PushAudio calls made since the connection last acquired
\*   lastStart  startSampleIndex of the last of them (0: none yet)
\*   monotone   their startSampleIndex values were >= 0 and non-decreasing, each at
\*              most MaxGapSamples past the accumulated samples, the engine succeeded
\*              and the peer took every send
\*   regular    monotone, and none of them started behind the accumulated samples
\*   announced  the session_id of the SessionStarted message of the attachment
\*              ("": none)
\*   reused     the session popped by the Acquire of the frame being handled had
\*              frames staged or samples accumulated when it was popped
\*   erred      an Error message was sent since the connection last acquired (forgotten
\*              once a frame is done with and no session is bound)
WireInit ==
  [phase |-> "none", nStarted |-> 0, lastBin |-> -1, inOrder |-> TRUE, nPush |-> 0,
   lastStart |-> 0, monotone |-> TRUE, regular |-> TRUE, announced |-> "",
   reused |-> FALSE, erred |-> FALSE]

\* Session-control messages count from the SendFrame call, binary frames when delivered
WireAfter(w, m) ==
  IF m.op = "Binary"
  THEN IF ~m.ok THEN w
       ELSE [w EXCEPT !.lastBin = m.last,
                      !.inOrder = /\ w.inOrder
                                  /\ m.first > w.lastBin
                                  /\ (w.lastBin = -1 => m.first = 0)]
  ELSE IF m.op = "Text" /\ m.type = "SessionStarted"
       THEN [w EXCEPT !.phase = "started", !.nStarted = w.nStarted + 1,
                      !.announced = m.text]
  ELSE IF m.op = "Text" /\ m.type = "SessionEnded" THEN [w EXCEPT !.phase = "ended"]
  ELSE IF m.op = "Text" /\ m.type = "Error" THEN [w EXCEPT !.erred = TRUE]
  ELSE w

(***************************************************************************)
(* SessionContext: mutable fields, and the engine state they depend on      *)
(* (audio accumulator, executor, emotion accumulator of track 0).           *)
(***************************************************************************)
EngineReady == [accumulated |-> 0, executed |-> 0, emotions |-> 1, emoClosed |-> TRUE]

\* The state SessionContext::Init leaves (it ends in ResetForReuse); mutex is the
\* thread that holds _mutex (None: free)
SessionInit ==
  [wsSocket |-> None, sessionId |-> "", pendingFrames |-> <<>>, nextFrameIndex |-> 0,
   lastCudaStream |-> FALSE, eng |-> EngineReady, mutex |-> None]

Range(s) == {s[i] : i \in 1..Len(s)}

\* The one element of a singleton
Only(S) == CHOOSE x \in S : TRUE

\* SessionPool::Init: sessions 0..maxSessions-1 pushed in order
InitFree(maxSessions) == [i \in 1..maxSessions |-> i - 1]

NoFrame == [kind |-> "none"]

\* SessionPool::Init(cfg) and main before the accept loop
InitPool(maxSessions) ==
  /\ freeIndices = InitFree(maxSessions)
  /\ sess = [s \in 0..(maxSessions - 1) |-> SessionInit]

InitServer ==
  /\ InitPool(MaxSessions)
  /\ pc = [c \in Conns |-> "idle"]
  /\ sessionIndex = [c \in Conns |-> None]
  /\ idx = [c \in Conns |-> None]
  /\ after = [c \in Conns |-> "none"]
  /\ cur = [c \in Conns |-> NoFrame]
  /\ reply = [c \in Conns |-> <<>>]
  /\ sockOk = [c \in Conns |-> TRUE]
  /\ wire = [c \in Conns |-> WireInit]
  /\ crashed = FALSE

Init ==
  /\ InitServer
  /\ vReq = NoHints
  /\ vRes = NotValidated

\* The same server started with room for two sessions
InitPair ==
  /\ InitPool(PairSessions)
  /\ pc = [c \in Conns |-> "idle"]
  /\ sessionIndex = [c \in Conns |-> None]
  /\ idx = [c \in Conns |-> None]
  /\ after = [c \in Conns |-> "none"]
  /\ cur = [c \in Conns |-> NoFrame]
  /\ reply = [c \in Conns |-> <<>>]
  /\ sockOk = [c \in Conns |-> TRUE]
  /\ wire = [c \in Conns |-> WireInit]
  /\ crashed = FALSE
  /\ vReq = NoHints
  /\ vRes = NotValidated


(***************************************************************************)
(* SessionContext operations.                                               *)
(***************************************************************************)
\* A reset that reports success and resets nothing
ResetForReuse_Nothing(s, fault) == [ok |-> TRUE, s |-> s]

\* A reset that adds its neutral emotion to the ones the accumulator holds
ResetForReuse_Stacks(s, fault) ==
  [ok |-> TRUE,
   s |-> [s EXCEPT !.eng = [accumulated |-> 0, executed |-> 0,
                            emotions |-> s.eng.emotions + 1, emoClosed |-> TRUE],
                   !.pendingFrames = <<>>, !.nextFrameIndex = 0,
                   !.lastCudaStream = FALSE]]

\* SessionContext::ResetForReuse: [ok, s], s the session afterwards
ResetForReuse(s, fault) ==
  LET e1 == [s.eng EXCEPT !.executed = 0]
      e2 == [e1 EXCEPT !.accumulated = 0]
      e3 == [e2 EXCEPT !.emotions = 0, !.emoClosed = FALSE]
      e4 == [e3 EXCEPT !.emotions = 1]
      e5 == [e4 EXCEPT !.emoClosed = TRUE]
  IN  CASE fault = "executorReset" -> [ok |-> FALSE, s |-> s]
        [] fault = "audioReset" -> [ok |-> FALSE, s |-> [s EXCEPT !.eng = e1]]
        [] fault = "emotionReset" -> [ok |-> FALSE, s |-> [s EXCEPT !.eng = e2]]
        [] fault = "neutralAccumulate" -> [ok |-> FALSE, s |-> [s EXCEPT !.eng = e3]]
        [] fault = "neutralClose" -> [ok |-> FALSE, s |-> [s EXCEPT !.eng = e4]]
        [] OTHER -> [ok |-> TRUE,
                     s |-> [s EXCEPT !.eng = e5, !.pendingFrames = <<>>,
                                     !.nextFrameIndex = 0, !.lastCudaStream = FALSE]]

\* A Start that does not store the socket
Start_NoSocket(s, wsSocket, sid) ==
  [s EXCEPT !.sessionId = sid, !.pendingFrames = <<>>, !.nextFrameIndex = 0]

\* SessionContext::Start
Start(s, wsSocket, sid) ==
  [s EXCEPT !.wsSocket = wsSocket, !.sessionId = sid, !.pendingFrames = <<>>,
            !.nextFrameIndex = 0]

\* A Stop that leaves the socket pointer in place
Stop_Keep(s) == s

\* SessionContext::Stop
Stop(s) == [s EXCEPT !.wsSocket = None]

(***************************************************************************)
(* SessionContext::PushAudio.  The call runs under the session mutex from   *)
(* its first access to its return, and only the worker the session is      *)
(* attached to calls it, so it is one step; what the engine and the socket  *)
(* do during the call is the environment env of the step:                   *)
(*   batch        frames the executor runs per Execute call                 *)
(*   fault, at    the engine call that fails, and at which occurrence       *)
(*   budget       SendFrame calls that still succeed before the peer goes   *)
(*                away (Unlimited: it stays)                                *)
(*   cancelFails  whether Execute reports an error when the callback        *)
(*                returned false                                            *)
(*   stall        whether a send beyond the budget blocks (the peer stopped  *)
(*                reading and the socket buffers are full) instead of        *)
(*                failing (the peer is gone)                                 *)
(* The machine's field peak is the largest size the staging queue had       *)
(* during the call; nErr counts the Error messages handed to the socket,    *)
(* accum lists the Accumulate calls that succeeded (zeros or converted      *)
(* samples, and how many), failExec is the number of Execute calls made     *)
(* when the send of a frame failed.  Its field blocked says that a send of  *)
(* the call blocked: the fields then hold what the call leaves behind once  *)
(* that send fails, which no thread can read before, since the call holds   *)
(* the session mutex.                                                       *)
(***************************************************************************)
kMaxStagedFrames == 256
kFlushThresholdFrames == 32
\* PushAudio: gap > 16000 * 10
MaxGapSamples == 160000
\* executor.GetWeightCount()
WeightCount == 2

\* A send budget that never runs out
Unlimited == None

Min(a, b) == IF a < b THEN a ELSE b

\* Frames the executor can have run once `accumulated` samples are in
FramesAvailable(eng) ==
  (eng.accumulated * FpsNumerator) \div (SamplingRate * FpsDenominator)

\* nva2x::GetNbReadyTracks(executor) > 0, for the single track
Ready(eng) == eng.emoClosed /\ FramesAvailable(eng) > eng.executed

\* Time stamp (in samples) of the executor's k-th frame
TimeStamp(k) == (k * SamplingRate * FpsDenominator) \div FpsNumerator

\* a2fws::SendFrame on the session's socket, as seen by the session: send() takes
\* the bytes, blocks (no timeout is set on the socket), or fails
SendM(m, msg) ==
  IF m.alive /\ m.budget # 0
  THEN [m EXCEPT !.out = AppendMsg(m.out, [msg EXCEPT !.ok = TRUE]),
                 !.budget = IF m.budget > 0 THEN m.budget - 1 ELSE m.budget,
                 !.sent = TRUE]
  ELSE IF m.blocked THEN [m EXCEPT !.sent = FALSE]
  ELSE IF m.alive /\ m.stall
  THEN [m EXCEPT !.blocked = TRUE, !.alive = FALSE, !.sent = FALSE]
  ELSE [m EXCEPT !.out = AppendMsg(m.out, [msg EXCEPT !.ok = FALSE]),
                 !.alive = FALSE, !.sent = FALSE]

\* A SendErrorLocked that sends nothing
SendErrorLocked_Silent(m, text) == m

\* SessionContext::SendErrorLocked
SendErrorLocked(m, text) ==
  IF m.wsSocket = None THEN m
  ELSE [SendM(m, TextMsg("Error", text, TRUE)) EXCEPT !.nErr = m.nErr + 1]

\* The fields of session record s and the counters of a call that begins
Machine(s, alive, env) ==
  [wsSocket |-> s.wsSocket, pendingFrames |-> s.pendingFrames,
   nextFrameIndex |-> s.nextFrameIndex, lastCudaStream |-> s.lastCudaStream,
   eng |-> s.eng, out |-> <<>>, alive |-> alive, budget |-> env.budget,
   sent |-> FALSE, ret |-> FALSE, stop |-> FALSE, nCb |-> 0, nExec |-> 0, nSync |-> 0,
   peak |-> Len(s.pendingFrames), stall |-> env.stall, blocked |-> FALSE,
   nErr |-> 0, failExec |-> None, accum |-> <<>>]

\* A slot choice that counts from one
NextSlot_FromOne(pending) == Len(pending) + 1

\* OnDeviceResults: slotIndex = _pendingFrames.size()
NextSlot(pending) == Len(pending)

\* A test for the empty weight view that never finds one
EmptyView_Never(size) == FALSE

\* OnDeviceResults: results.weights.Size() == 0
EmptyView(size) == size = 0

\* The weight view the executor hands to the nCb-th callback of the call
WeightsSize(m, env) ==
  IF env.fault = "emptyWeights" /\ m.nCb = env.at THEN 0
  ELSE IF env.fault = "weightSize" /\ m.nCb = env.at THEN WeightCount + 1
  ELSE WeightCount

\* A queue-full test that lets one frame too many in
PendingFull_Late(pending) == Len(pending) > kMaxStagedFrames

\* The queue-full test of OnDeviceResults
PendingFull(pending) == Len(pending) >= kMaxStagedFrames

\* A callback that numbers a frame before it tests the queue
OnDeviceResults_CountsFirst(m0, k, env) ==
  LET m == [m0 EXCEPT !.nCb = m0.nCb + 1]
      size == WeightsSize(m, env)
      slotIndex == NextSlot(m.pendingFrames)
      frame == [frameIndex |-> m.nextFrameIndex, tsCurrent |-> TimeStamp(k),
                tsNext |-> TimeStamp(k + 1), slotIndex |-> slotIndex]
  IN  IF m.wsSocket = None THEN [m EXCEPT !.ret = FALSE]
      ELSE IF EmptyView(size) THEN [m EXCEPT !.ret = TRUE]
      ELSE IF size # WeightCount
      THEN [SendErrorLocked(m, "Unexpected weight vector size from executor")
              EXCEPT !.ret = FALSE]
      ELSE IF PendingFull(m.pendingFrames)
      THEN [SendErrorLocked(m, "Too many pending frames (client too slow?)")
              EXCEPT !.ret = FALSE, !.nextFrameIndex = m.nextFrameIndex + 1]
      ELSE IF env.fault = "copy" /\ m.nCb = env.at
      THEN [SendErrorLocked(m, "CopyDeviceToHost failed") EXCEPT !.ret = FALSE]
      ELSE [m EXCEPT !.lastCudaStream = TRUE,
                     !.nextFrameIndex = m.nextFrameIndex + 1,
                     !.pendingFrames = Append(m.pendingFrames, frame),
                     !.peak = IF slotIndex + 1 > m.peak THEN slotIndex + 1 ELSE m.peak,
                     !.ret = TRUE]

\* SessionContext::OnDeviceResults for the executor's frame k: m with ret set
OnDeviceResults(m0, k, env) ==
  LET m == [m0 EXCEPT !.nCb = m0.nCb + 1]
      size == WeightsSize(m, env)
      slotIndex == NextSlot(m.pendingFrames)
      frame == [frameIndex |-> m.nextFrameIndex, tsCurrent |-> TimeStamp(k),
                tsNext |-> TimeStamp(k + 1), slotIndex |-> slotIndex]
  IN  IF m.wsSocket = None THEN [m EXCEPT !.ret = FALSE]
      ELSE IF EmptyView(size) THEN [m EXCEPT !.ret = TRUE]
      ELSE IF size # WeightCount
      THEN [SendErrorLocked(m, "Unexpected weight vector size from executor")
              EXCEPT !.ret = FALSE]
      ELSE IF PendingFull(m.pendingFrames)
      THEN [SendErrorLocked(m, "Too many pending frames (client too slow?)")
              EXCEPT !.ret = FALSE]
      ELSE IF env.fault = "copy" /\ m.nCb = env.at
      THEN [SendErrorLocked(m, "CopyDeviceToHost failed") EXCEPT !.ret = FALSE]
      ELSE [m EXCEPT !.lastCudaStream = TRUE,
                     !.nextFrameIndex = m.nextFrameIndex + 1,
                     !.pendingFrames = Append(m.pendingFrames, frame),
                     !.peak = IF slotIndex + 1 > m.peak THEN slotIndex + 1 ELSE m.peak,
                     !.ret = TRUE]

RECURSIVE Deliver(_, _, _, _)
\* The executor hands frames k .. last to the callback, in order, until it returns
\* false (the range is split in halves to keep the evaluation shallow)
Deliver(m, k, last, env) ==
  IF k > last THEN [m EXCEPT !.ret = TRUE]
  ELSE IF k = last THEN OnDeviceResults(m, k, env)
  ELSE LET mid == (k + last) \div 2
           r == Deliver(m, k, mid, env)
       IN  IF ~r.ret THEN r ELSE Deliver(r, mid + 1, last, env)

\* executor.Execute(nullptr): m with ret = FALSE when Execute returns an error
Execute(m0, env) ==
  LET m == [m0 EXCEPT !.nExec = m0.nExec + 1]
      n == Min(env.batch, FramesAvailable(m.eng) - m.eng.executed)
      d == Deliver(m, m.eng.executed, m.eng.executed + n - 1, env)
      ran == [d EXCEPT !.eng.executed = m.eng.executed + n]
  IN  IF env.fault = "execute" /\ m.nExec = env.at THEN [m EXCEPT !.ret = FALSE]
      ELSE IF ~d.ret THEN [ran EXCEPT !.ret = ~env.cancelFails]
      ELSE [ran EXCEPT !.ret = TRUE]

RECURSIVE SendFrames(_, _, _)
\* FlushPendingFramesLocked, the for loop over pending frames i .. j, in order, until
\* a send fails
SendFrames(m, i, j) ==
  IF i > j THEN [m EXCEPT !.ret = TRUE]
  ELSE IF i = j
  THEN Only({[r EXCEPT !.ret = r.sent,
                       !.failExec = IF r.sent THEN r.failExec ELSE r.nExec] :
               r \in {SendM(m, BinMsg(m.pendingFrames[i].frameIndex, TRUE))}})
  ELSE LET mid == (i + j) \div 2
           r == SendFrames(m, i, mid)
       IN  IF ~r.ret THEN r ELSE SendFrames(r, mid + 1, j)

\* A flush that forgets to empty the queue after sending it
FlushPendingFramesLocked_NoClear(m0, env) ==
  LET m == [m0 EXCEPT !.nSync = m0.nSync + 1]
  IN  IF m0.pendingFrames = <<>> THEN [m0 EXCEPT !.ret = TRUE]
      ELSE SendFrames(m, 1, Len(m.pendingFrames))

\* SessionContext::FlushPendingFramesLocked: m with ret
FlushPendingFramesLocked(m0, env) ==
  LET m == [m0 EXCEPT !.nSync = m0.nSync + 1]
  IN  IF m0.pendingFrames = <<>> THEN [m0 EXCEPT !.ret = TRUE]
      ELSE IF ~m0.lastCudaStream
      THEN [SendErrorLocked(m0, "Internal error: no CUDA stream associated with pending frames")
              EXCEPT !.ret = FALSE]
      ELSE IF env.fault = "synchronize" /\ m.nSync = env.at
      THEN [SendErrorLocked(m, "CUDA stream synchronization failed") EXCEPT !.ret = FALSE]
      ELSE LET r == SendFrames(m, 1, Len(m.pendingFrames))
           IN  IF ~r.ret THEN r ELSE [r EXCEPT !.pendingFrames = <<>>]

\* A turn of the loop that goes on after a flush failed
LoopTurn_FlushOn(m, env) ==
  IF ~Ready(m.eng) THEN [m EXCEPT !.ret = TRUE, !.stop = TRUE]
  ELSE LET e == Execute(m, env)
       IN  IF ~e.ret
           THEN [SendErrorLocked(e, "Execute() failed") EXCEPT !.ret = FALSE, !.stop = TRUE]
           ELSE IF Len(e.pendingFrames) >= kFlushThresholdFrames
           THEN [FlushPendingFramesLocked(e, env) EXCEPT !.ret = TRUE]
           ELSE e

\* PushAudio, one turn of the while loop over GetNbReadyTracks; stop = the loop is left
LoopTurn(m, env) ==
  IF ~Ready(m.eng) THEN [m EXCEPT !.ret = TRUE, !.stop = TRUE]
  ELSE LET e == Execute(m, env)
       IN  IF ~e.ret
           THEN [SendErrorLocked(e, "Execute() failed") EXCEPT !.ret = FALSE, !.stop = TRUE]
           ELSE IF Len(e.pendingFrames) >= kFlushThresholdFrames
           THEN LET f == FlushPendingFramesLocked(e, env)
                IN  [f EXCEPT !.stop = ~f.ret]
           ELSE e

RECURSIVE LoopTurns(_, _, _)
\* Up to n turns of the loop, in order (split in halves to keep the evaluation shallow)
LoopTurns(m, n, env) ==
  IF n <= 0 \/ m.stop THEN m
  ELSE IF n = 1 THEN LoopTurn(m, env)
  ELSE LoopTurns(LoopTurns(m, n \div 2, env), n - n \div 2, env)

\* PushAudio, the while loop: every successful turn runs at least one frame, so the
\* frames still to run, plus one, bound the turns
DriveExecutor(m, env) ==
  LoopTurns(m, FramesAvailable(m.eng) - m.eng.executed + 1, env)

\* An out-of-order test that is off by one: contiguous audio is rejected too
BehindAccumulator_Strict(startU, accumulated) == startU <= accumulated

\* The out-of-order test of PushAudio
BehindAccumulator(startU, accumulated) == startU < accumulated

\* A PushAudio that returns true without the flush after the loop
FinalFlush_Skip(m, env) == [m EXCEPT !.ret = TRUE]

\* PushAudio, after the while loop: FlushPendingFramesLocked, unconditionally
FinalFlush(m, env) == FlushPendingFramesLocked(m, env)

\* A gap test that refuses a gap of exactly ten seconds
GapTooLarge_AtLimit(gap) == gap >= MaxGapSamples

\* The gap test of PushAudio
GapTooLarge(gap) == gap > MaxGapSamples

\* SessionContext::PushAudio on session record s: the machine afterwards, ret = its result
PushAudio(s, startSampleIndex, sampleCount, alive, env) ==
  LET m == Machine(s, alive, env)
      accumulated == m.eng.accumulated
      gap == startSampleIndex - accumulated
      afterGap == IF gap > 0
                  THEN [m EXCEPT !.eng.accumulated = accumulated + gap,
                                 !.accum = <<[zeros |-> TRUE, count |-> gap]>>]
                  ELSE m
      afterAudio == [afterGap EXCEPT
                       !.eng.accumulated = afterGap.eng.accumulated + sampleCount,
                       !.accum = Append(afterGap.accum,
                                        [zeros |-> FALSE, count |-> sampleCount])]
  IN  IF startSampleIndex < 0
      THEN [SendErrorLocked(m, "startSampleIndex must be >= 0") EXCEPT !.ret = FALSE]
      ELSE IF env.fault = "setDevice"
      THEN [SendErrorLocked(m, "Failed to set CUDA device") EXCEPT !.ret = FALSE]
      ELSE IF m.wsSocket = None THEN [m EXCEPT !.ret = FALSE]
      ELSE IF BehindAccumulator(startSampleIndex, accumulated)
      THEN [SendErrorLocked(m, "PushAudio startSampleIndex is behind the accumulator (out-of-order audio)")
              EXCEPT !.ret = FALSE]
      ELSE IF GapTooLarge(gap)
      THEN [SendErrorLocked(m, "Audio gap too large") EXCEPT !.ret = FALSE]
      ELSE IF gap > 0 /\ env.fault = "accumulateGap"
      THEN [SendErrorLocked(m, "Failed to fill audio gap") EXCEPT !.ret = FALSE]
      ELSE IF env.fault = "accumulate"
      THEN [SendErrorLocked(afterGap, "Failed to accumulate audio") EXCEPT !.ret = FALSE]
      ELSE LET d == DriveExecutor(afterAudio, env)
           IN  IF ~d.ret THEN d ELSE FinalFlush(d, env)

(***************************************************************************)
(* What the clients and the engine do is drawn from a load: the inputs of  *)
(* the steps.                                                               *)
(*   requests     StartSession requests                                     *)
(*   endIds       session_id fields of EndSession requests                  *)
(*   sessionIds   what RandomHex(16) can draw                               *)
(*   resetFaults  the engine call of ResetForReuse that returns an error    *)
(*   pings, opcodes, readFails, throws   frames that touch no session       *)
(*   peerGoes     whether the peer may go away at any time                  *)
(*   sizes        Binary payload sizes                                      *)
(*   offsets      startSampleIndex relative to the accumulated samples      *)
(*   cap          accumulated samples are capped, to keep the model finite  *)
(*   envs         what engine and socket do during PushAudio                *)
(***************************************************************************)
Env(batch, fault, at, budget, cancelFails) ==
  [batch |-> batch, fault |-> fault, at |-> at, budget |-> budget,
   cancelFails |-> cancelFails, stall |-> FALSE]

\* The same, with a peer that stops reading instead of going away
Stalling(env) == [env EXCEPT !.stall = TRUE]

Fps30 == Req(Absent, JInt(30), Absent, Absent)
\* Hints that match only after canonicalisation
CanonicalHints ==
  Req(JStr(<<".", "/", "d", "\\", "m", "/">>), Absent, JRate(JInt(60), JInt(1)),
      JOpts(JBool(TRUE), JStr(<<"s","k","i","n","_","t","o","n","g","u","e">>)))

\* One second of audio, in samples (the unit client chunks come in)
ChunkSamples == SamplingRate

\* PushAudio calls explored per acquired session
MaxPushes == 2

\* Several connections side by side: one input per kind of frame, the engine
\* succeeds, the peer may go away mid-flush, audio comes as a contiguous
\* one-second chunk
SharedLoad ==
  [requests |-> {NoHints, Fps30},
   endIds |-> {Absent, JStr("id-x")},
   sessionIds |-> {"id-a"},
   resetFaults |-> {"none", "executorReset"},
   pings |-> {"p"},
   opcodes |-> {"Pong"},
   readFails |-> {"eof"},
   peerGoes |-> TRUE,
   throws |-> {"NotAnObject"},
   sizes |-> {7, 8 + 2 * ChunkSamples},
   offsets |-> {0},
   cap |-> ChunkSamples,
   envs |-> {Env(1, "none", 1, n, FALSE) : n \in {Unlimited, 40}}
            \cup {Stalling(Env(1, "none", 1, 40, FALSE))}]

\* Engine faults that strike before any result callback runs
EarlyFaults == {"setDevice", "accumulateGap", "accumulate"}

\* Engine faults that strike at the at-th Execute or stream synchronisation
CallFaults == {"execute", "synchronize"}

\* Faults inside the at-th result callback; Execute may or may not report them
CallbackFaults == {"copy", "emptyWeights", "weightSize"}

\* A single connection: every engine fault, frame-by-frame batches and batches
\* larger than the staging queue, every send budget, gaps up to and beyond the limit
SoloLoad ==
  [requests |-> {NoHints, Fps30, CanonicalHints},
   endIds |-> {Absent, JInt(7), JStr("id-a"), JStr("id-b")},
   sessionIds |-> {"id-a", "id-b"},
   resetFaults |-> {"none", "executorReset", "audioReset", "emotionReset",
                    "neutralAccumulate", "neutralClose"},
   pings |-> {"", "p"},
   opcodes |-> {"Pong"},
   readFails |-> {"eof"},
   peerGoes |-> TRUE,
   throws |-> {"NotAnObject", "TypeNotAString"},
   sizes |-> {7, 9, 8 + 2 * ChunkSamples},
   offsets |-> {-ChunkSamples, 0, MaxGapSamples, MaxGapSamples + 1},
   cap |-> MaxGapSamples + 2 * ChunkSamples,
   envs |-> {Env(1, "none", 1, n, FALSE) : n \in {Unlimited, 0, 1, 40}}
            \cup {Stalling(Env(1, "none", 1, n, FALSE)) : n \in {0, 40}}
            \cup {Env(300, "none", 1, Unlimited, FALSE)}
            \cup {Env(1, f, 1, Unlimited, FALSE) : f \in EarlyFaults}
            \cup {Env(1, f, a, Unlimited, FALSE) : f \in CallFaults, a \in {1, 2}}
            \cup {Env(1, f, 2, Unlimited, x) : f \in CallbackFaults, x \in BOOLEAN}]

\* Two connections over a pool of two sessions: one input per kind of frame, audio
\* in one-second chunks, a peer that reads everything or stops reading mid-flush
PairLoad ==
  [SharedLoad EXCEPT
     !.requests = {NoHints},
     !.endIds = {Absent},
     !.sizes = {8 + 2 * ChunkSamples},
     !.envs = {Env(1, "none", 1, Unlimited, FALSE),
               Stalling(Env(1, "none", 1, 40, FALSE))}]

\* The second connection of the pair: it starts a session, pushes one chunk to a
\* reading peer, ends the session or closes
QuietLoad ==
  [PairLoad EXCEPT
     !.resetFaults = {"none"},
     !.pings = {},
     !.opcodes = {},
     !.readFails = {},
     !.peerGoes = FALSE,
     !.throws = {},
     !.envs = {Env(1, "none", 1, Unlimited, FALSE)}]

\* Twenty seconds of audio in one message
LongSamples == 20 * SamplingRate

\* A single connection whose peer sends long messages and may stop reading: the
\* engine succeeds, frame by frame or with batches larger than the staging queue
StalledLoad ==
  [SharedLoad EXCEPT
     !.sizes = {7, 8 + 2 * ChunkSamples, 8 + 2 * LongSamples},
     !.cap = LongSamples + ChunkSamples,
     !.envs = {Env(1, "none", 1, n, FALSE) : n \in {Unlimited, 40}}
              \cup {Stalling(Env(1, "none", 1, n, FALSE)) : n \in {0, 40}}
              \cup {Env(300, "none", 1, Unlimited, FALSE)}]

(***************************************************************************)
(* The dispatcher: HandleClient, one worker per connection.                 *)
(***************************************************************************)
RECURSIVE FoldWire(_, _)
FoldWire(w, msgs) ==
  IF msgs = <<>> THEN w ELSE FoldWire(WireAfter(w, Head(msgs)), Tail(msgs))

\* The acquisition starts a new attachment of the connection, the release ends it
WireAttach(w) ==
  [w EXCEPT !.nStarted = 0, !.lastBin = -1, !.nPush = 0, !.lastStart = 0,
            !.monotone = TRUE, !.regular = TRUE, !.announced = ""]

\* The engine succeeds, and no Execute call hands over more frames than the staging
\* queue has room for when a flush is due; the peer takes every send
RegularEnv(env, alive) ==
  /\ env.fault = "none"
  /\ env.batch + kFlushThresholdFrames - 1 <= kMaxStagedFrames
  /\ env.budget = Unlimited
  /\ alive

\* The outbound history after a PushAudio call (before its sends are counted)
WirePush(w, start, gap, env, alive) ==
  LET monotone == /\ w.monotone
                  /\ RegularEnv(env, alive)
                  /\ start >= 0
                  /\ start >= w.lastStart
                  /\ gap <= MaxGapSamples
  IN  [w EXCEPT !.nPush = w.nPush + 1, !.lastStart = start, !.monotone = monotone,
                !.regular = w.regular /\ monotone /\ gap >= 0]

\* The worker starts handling a new frame and makes the SendFrame calls msgs
SendsFrom(c, w, frame, msgs) ==
  /\ cur' = [cur EXCEPT ![c] = frame]
  /\ reply' = [reply EXCEPT ![c] = msgs]
  /\ wire' = [wire EXCEPT ![c] = FoldWire(w, msgs)]

Sends(c, frame, msgs) == SendsFrom(c, wire[c], frame, msgs)

\* The worker makes further SendFrame calls while handling the same frame
SendsMore(c, msgs) ==
  /\ cur' = cur
  /\ reply' = [reply EXCEPT ![c] = reply[c] \o msgs]
  /\ wire' = [wire EXCEPT ![c] = FoldWire(wire[c], msgs)]

\* The handler of the frame makes no pool call
NoPoolCall(c) ==
  /\ idx' = [idx EXCEPT ![c] = None]
  /\ after' = [after EXCEPT ![c] = "none"]

\* A handler that ends the loop instead of continuing it
Handled_Break(c) ==
  /\ pc' = [pc EXCEPT ![c] = "done"]
  /\ NoPoolCall(c)

\* The loop body ends without a pool call (continue, or the end of the body)
Handled(c) ==
  /\ pc' = [pc EXCEPT ![c] = "handled"]
  /\ NoPoolCall(c)

\* main.cpp SendJson with an Error body
ErrorMsg(c, text) == TextMsg("Error", text, sockOk[c])

\* main's accept loop hands a new connection to a fresh worker thread
Accept(c) ==
  /\ ~crashed
  /\ pc[c] = "idle"
  /\ pc' = [pc EXCEPT ![c] = "handshake"]
  /\ UNCHANGED <<poolVars, sessionIndex, idx, after, cur, reply, sockOk, wire, crashed,
                 valVars>>

\* The peer goes away: from now on every send on the socket fails
PeerGone(c, load) ==
  /\ ~crashed
  /\ load.peerGoes
  /\ pc[c] \notin {"idle", "done"}
  /\ sockOk[c]
  /\ sockOk' = [sockOk EXCEPT ![c] = FALSE]
  /\ UNCHANGED <<poolVars, pc, sessionIndex, idx, after, cur, reply, wire, crashed, valVars>>

\* HandleClient: PerformServerHandshake, return on failure
Handshake(c) ==
  /\ ~crashed
  /\ pc[c] = "handshake"
  /\ \E upgradeOk \in BOOLEAN :
       IF upgradeOk
       THEN /\ Sends(c, [kind |-> "Upgrade"], <<CtlMsg("Http101", sockOk[c])>>)
            /\ pc' = [pc EXCEPT ![c] = IF sockOk[c] THEN "loop" ELSE "done"]
       ELSE /\ Sends(c, [kind |-> "BadUpgrade"], <<>>)
            /\ pc' = [pc EXCEPT ![c] = "done"]
  /\ UNCHANGED <<poolVars, sessionIndex, idx, after, sockOk, crashed, valVars>>

\* A loop exit that forgets the bound session
LeaveLoop_NoRelease(c) ==
  /\ pc' = [pc EXCEPT ![c] = "done"]
  /\ NoPoolCall(c)
  /\ UNCHANGED sessionIndex

\* HandleClient after the loop: release the bound session, if any
LeaveLoop(c) ==
  IF sessionIndex[c] # None
  THEN /\ pc' = [pc EXCEPT ![c] = "rel_stop"]
       /\ idx' = [idx EXCEPT ![c] = sessionIndex[c]]
       /\ after' = [after EXCEPT ![c] = "exit"]
       /\ UNCHANGED sessionIndex
  ELSE /\ pc' = [pc EXCEPT ![c] = "done"]
       /\ NoPoolCall(c)
       /\ UNCHANGED sessionIndex

\* ReadFrame returns false (socket error, EOF, fragmented or oversized frame): break
ReadFail(c, load) ==
  /\ ~crashed
  /\ pc[c] = "loop"
  /\ \E why \in load.readFails :
       Sends(c, [kind |-> "ReadFail", why |-> why], <<>>)
  /\ LeaveLoop(c)
  /\ UNCHANGED <<poolVars, sockOk, crashed, valVars>>

\* Opcode::Close: reply Close, break
CloseFrame(c) ==
  /\ ~crashed
  /\ pc[c] = "loop"
  /\ Sends(c, [kind |-> "Close"], <<CtlMsg("Close", sockOk[c])>>)
  /\ LeaveLoop(c)
  /\ UNCHANGED <<poolVars, sockOk, crashed, valVars>>

\* A Ping answered by a Pong without payload
PingFrame_Empty(c, load) ==
  /\ ~crashed
  /\ pc[c] = "loop"
  /\ \E payload \in load.pings :
       Sends(c, [kind |-> "Ping", payload |-> payload], <<CtlMsg("Pong", sockOk[c])>>)
  /\ Handled(c)
  /\ UNCHANGED <<poolVars, sessionIndex, sockOk, crashed, valVars>>

\* Opcode::Ping: reply Pong with the same payload, continue
PingFrame(c, load) ==
  /\ ~crashed
  /\ pc[c] = "loop"
  /\ \E payload \in load.pings :
       Sends(c, [kind |-> "Ping", payload |-> payload],
             <<[CtlMsg("Pong", sockOk[c]) EXCEPT !.text = payload]>>)
  /\ Handled(c)
  /\ UNCHANGED <<poolVars, sessionIndex, sockOk, crashed, valVars>>

\* A frame with any other opcode than Ping, Close, Text, Binary falls through the loop body
OtherFrame(c, load) ==
  /\ ~crashed
  /\ pc[c] = "loop"
  /\ \E opcode \in load.opcodes :
       Sends(c, [kind |-> "Other", opcode |-> opcode], <<>>)
  /\ Handled(c)
  /\ UNCHANGED <<poolVars, sessionIndex, sockOk, crashed, valVars>>

\* Opcode::Text whose payload json::parse rejects
TextInvalidJson(c) ==
  /\ ~crashed
  /\ pc[c] = "loop"
  /\ Sends(c, [kind |-> "InvalidJson"], <<ErrorMsg(c, "Invalid JSON")>>)
  /\ Handled(c)
  /\ UNCHANGED <<poolVars, sessionIndex, sockOk, crashed, valVars>>

\* Opcode::Text whose JSON is no object, or whose "type" is no string:
\* msg.value("type", "") throws outside the try block, the exception leaves the
\* thread function and std::terminate ends the process with all its state
TextTypeThrows(c, load) ==
  /\ ~crashed
  /\ pc[c] = "loop"
  /\ \E what \in load.throws :
       cur' = [d \in Conns |-> IF d = c THEN [kind |-> what] ELSE NoFrame]
  /\ crashed' = TRUE
  /\ freeIndices' = InitFree(Cardinality(Sessions))
  /\ sess' = [s \in Sessions |-> SessionInit]
  /\ pc' = [d \in Conns |-> "idle"]
  /\ sessionIndex' = [d \in Conns |-> None]
  /\ idx' = [d \in Conns |-> None]
  /\ after' = [d \in Conns |-> "none"]
  /\ reply' = [d \in Conns |-> <<>>]
  /\ sockOk' = [d \in Conns |-> TRUE]
  /\ wire' = [d \in Conns |-> WireInit]
  /\ UNCHANGED valVars

\* Opcode::Text with a "type" that is neither StartSession nor EndSession (or absent)
TextUnknownType(c) ==
  /\ ~crashed
  /\ pc[c] = "loop"
  /\ Sends(c, [kind |-> "UnknownType"], <<ErrorMsg(c, "Unknown message type")>>)
  /\ Handled(c)
  /\ UNCHANGED <<poolVars, sessionIndex, sockOk, crashed, valVars>>

(***************************************************************************)
(* StartSession / EndSession and the pool.                                  *)
(***************************************************************************)
\* SessionPool::Acquire: idx = _freeIndices.back()
TopFree(stack) == stack[Len(stack)]

\* A pop that leaves the index on the stack
PopFree_Keep(stack) == stack

\* SessionPool::Acquire: _freeIndices.pop_back()
PopFree(stack) == SubSeq(stack, 1, Len(stack) - 1)

\* A push that drops the index
PushFree_Drop(stack, i) == stack

\* SessionPool::Acquire / Release: _freeIndices.push_back(idx)
PushFree(stack, i) == Append(stack, i)

\* A busy pool that is not reported
BusyReply_Silent(c) == <<>>

\* HandleClient when Acquire returns nullopt
BusyReply(c) == <<ErrorMsg(c, "Server busy (no free sessions)")>>

\* The session has frames staged or samples accumulated
Used(s) == s.pendingFrames # <<>> \/ s.eng.accumulated > 0

\* An already-started test that never strikes
AlreadyStarted_Never(c) == FALSE

\* HandleClient, StartSession: if (sessionIndex)
AlreadyStarted(c) == sessionIndex[c] # None

\* Text "StartSession": already-started check, then the locked part of
\* SessionPool::Acquire (pop an index or report the pool empty); the frame record
\* keeps the free stack as Acquire found it
StartSession(c, load) ==
  /\ ~crashed
  /\ pc[c] = "loop"
  /\ \E req \in load.requests :
       LET frame == [kind |-> "StartSession", req |-> req, free |-> freeIndices]
       IN  IF AlreadyStarted(c)
           THEN /\ Sends(c, frame,
                         <<ErrorMsg(c, "Session already started for this connection")>>)
                /\ Handled(c)
                /\ UNCHANGED freeIndices
           ELSE IF freeIndices = <<>>
           THEN /\ Sends(c, frame, BusyReply(c))
                /\ idx' = [idx EXCEPT ![c] = None]
                /\ after' = [after EXCEPT ![c] = "busy"]
                /\ pc' = [pc EXCEPT ![c] = "handled"]
                /\ UNCHANGED freeIndices
           ELSE /\ SendsFrom(c, [wire[c] EXCEPT
                                     !.reused = Used(sess[TopFree(freeIndices)])],
                              frame, <<>>)
                /\ idx' = [idx EXCEPT ![c] = TopFree(freeIndices)]
                /\ after' = [after EXCEPT ![c] = "acquire"]
                /\ freeIndices' = PopFree(freeIndices)
                /\ pc' = [pc EXCEPT ![c] = "acq_reset"]
  /\ UNCHANGED <<sess, sessionIndex, sockOk, crashed, valVars>>

\* SessionPool::Acquire: _sessions[idx]->ResetForReuse()
AcquireReset(c, load) ==
  /\ ~crashed
  /\ pc[c] = "acq_reset"
  /\ \E fault \in load.resetFaults :
       LET r == ResetForReuse(sess[idx[c]], fault)
       IN  /\ sess' = [sess EXCEPT ![idx[c]] = r.s]
           /\ pc' = [pc EXCEPT ![c] = IF r.ok THEN "acq_start" ELSE "acq_pushback"]
  /\ UNCHANGED <<freeIndices, sessionIndex, idx, after, cur, reply, sockOk, wire, crashed,
                 valVars>>

\* An Acquire that keeps the index of a session whose reset failed
Reinstate_Lost(stack, i) == stack

\* SessionPool::Acquire after a failed reset: _freeIndices.push_back(idx)
Reinstate(stack, i) == PushFree(stack, i)

\* SessionPool::Acquire after a failed reset: push the index back, return nullopt;
\* HandleClient then reports the server busy
AcquirePushBack(c) ==
  /\ ~crashed
  /\ pc[c] = "acq_pushback"
  /\ freeIndices' = Reinstate(freeIndices, idx[c])
  /\ SendsMore(c, BusyReply(c))
  /\ pc' = [pc EXCEPT ![c] = "handled"]
  /\ after' = [after EXCEPT ![c] = "resetfail"]
  /\ UNCHANGED <<sess, sessionIndex, idx, sockOk, crashed, valVars>>

\* What HandleClient sends once Acquire returned a session that passed validation
StartedMsgs_None(c, sid) == <<>>

StartedMsgs(c, sid) == <<TextMsg("SessionStarted", sid, sockOk[c])>>

\* SessionPool::Acquire: Start(wsSocket), return idx; HandleClient: describe,
\* validate, and either bind the session and send SessionStarted or release it
AcquireStart(c, load) ==
  /\ ~crashed
  /\ pc[c] = "acq_start"
  /\ \E sid \in load.sessionIds :
       /\ sess' = [sess EXCEPT ![idx[c]] = Start(sess[idx[c]], c, sid)]
       /\ IF ValidateStartSessionRequest(cur[c].req, DescribeSessionStarted).ok
          THEN /\ sessionIndex' = [sessionIndex EXCEPT ![c] = idx[c]]
               /\ pc' = [pc EXCEPT ![c] = "handled"]
               /\ cur' = cur
               /\ reply' = [reply EXCEPT ![c] = reply[c] \o StartedMsgs(c, sid)]
               /\ wire' = [wire EXCEPT
                             ![c] = FoldWire([WireAttach(wire[c]) EXCEPT !.erred = FALSE],
                                             StartedMsgs(c, sid))]
               /\ after' = [after EXCEPT ![c] = "started"]
          ELSE /\ after' = [after EXCEPT ![c] = "valerr"]
               /\ pc' = [pc EXCEPT ![c] = "rel_stop"]
               /\ wire' = [wire EXCEPT ![c] = WireAttach(wire[c])]
               /\ UNCHANGED <<sessionIndex, cur, reply>>
  /\ UNCHANGED <<freeIndices, idx, sockOk, crashed, valVars>>

\* A session_id test that lets every string pass
SessionIdMismatch_Never(sidField, sid) == FALSE

\* HandleClient, EndSession: msg["session_id"].get<std::string>() != sid
SessionIdMismatch(sidField, sid) == sidField.v # sid

\* Text "EndSession": checks, then Release begins
EndSession(c, load) ==
  /\ ~crashed
  /\ pc[c] = "loop"
  /\ \E sidField \in load.endIds :
       LET sid == IF sessionIndex[c] # None THEN sess[sessionIndex[c]].sessionId ELSE ""
           frame == [kind |-> "EndSession", session_id |-> sidField, sid |-> sid]
       IN  IF sessionIndex[c] = None
           THEN /\ Sends(c, frame, <<ErrorMsg(c, "No active session for this connection")>>)
                /\ Handled(c)
           ELSE IF Contains(sidField) /\ sidField.t # "str"
           THEN /\ Sends(c, frame, <<ErrorMsg(c, "EndSession.session_id must be a string")>>)
                /\ Handled(c)
           ELSE IF Contains(sidField) /\ SessionIdMismatch(sidField, sid)
           THEN /\ Sends(c, frame,
                         <<ErrorMsg(c, "EndSession.session_id does not match active session")>>)
                /\ Handled(c)
           ELSE /\ Sends(c, frame, <<>>)
                /\ idx' = [idx EXCEPT ![c] = sessionIndex[c]]
                /\ after' = [after EXCEPT ![c] = "ended"]
                /\ pc' = [pc EXCEPT ![c] = "rel_stop"]
  /\ UNCHANGED <<poolVars, sessionIndex, sockOk, crashed, valVars>>

\* SessionPool::Release: _sessions[idx]->Stop()
ReleaseStop(c) ==
  /\ ~crashed
  /\ pc[c] = "rel_stop"
  /\ sess' = [sess EXCEPT ![idx[c]] = Stop(sess[idx[c]])]
  /\ pc' = [pc EXCEPT ![c] = "rel_push"]
  /\ UNCHANGED <<freeIndices, sessionIndex, idx, after, cur, reply, sockOk, wire, crashed,
                 valVars>>

\* A Release that returns without pushing the index
ReleasePush_Lost(c) ==
  /\ ~crashed
  /\ pc[c] = "rel_push"
  /\ pc' = [pc EXCEPT ![c] = IF after[c] = "exit" THEN "done" ELSE "rel_reply"]
  /\ sessionIndex' = [sessionIndex EXCEPT ![c] = None]
  /\ wire' = [wire EXCEPT ![c] = WireAttach(wire[c])]
  /\ UNCHANGED <<poolVars, idx, after, cur, reply, sockOk, crashed, valVars>>

\* SessionPool::Release: push the index; then HandleClient forgets the session
\* (sessionIndex.reset(), or the worker ends)
ReleasePush(c) ==
  /\ ~crashed
  /\ pc[c] = "rel_push"
  /\ freeIndices' = PushFree(freeIndices, idx[c])
  /\ pc' = [pc EXCEPT ![c] = IF after[c] = "exit" THEN "done" ELSE "rel_reply"]
  /\ sessionIndex' = [sessionIndex EXCEPT ![c] = None]
  /\ wire' = [wire EXCEPT ![c] = WireAttach(wire[c])]
  /\ UNCHANGED <<sess, idx, after, cur, reply, sockOk, crashed, valVars>>

\* HandleClient after Release returned: SessionEnded, or the validation Error
ReleaseReply(c) ==
  /\ ~crashed
  /\ pc[c] = "rel_reply"
  /\ IF after[c] = "ended"
     THEN SendsMore(c, <<TextMsg("SessionEnded", cur[c].sid, sockOk[c])>>)
     ELSE SendsMore(c, <<ErrorMsg(c, ValidateStartSessionRequest(cur[c].req,
                                                                 DescribeSessionStarted).err)>>)
  /\ pc' = [pc EXCEPT ![c] = "handled"]
  /\ UNCHANGED <<poolVars, sessionIndex, idx, after, sockOk, crashed, valVars>>

(***************************************************************************)
(* Opcode::Binary in HandleClient.                                          *)
(***************************************************************************)
\* The session's fields after PushAudio left the machine m
SessionAfter(s, m) ==
  [s EXCEPT !.pendingFrames = m.pendingFrames, !.nextFrameIndex = m.nextFrameIndex,
            !.lastCudaStream = m.lastCudaStream, !.eng = m.eng]

\* A payload check that only looks for the header
BadPayload_ShortOnly(size) == size < 8

\* Opcode::Binary: frame.payload.size() < 8 || ((frame.payload.size() - 8) % 2) != 0
BadPayload(size) == size < 8 \/ (size - 8) % 2 # 0

\* main.cpp ReadI64LE(data, len): nullopt below 8 bytes, else the value v the
\* first 8 bytes hold
ReadI64LE(v, len) == IF len < 8 THEN [has |-> FALSE] ELSE [has |-> TRUE, v |-> v]

\* Opcode::Binary: state and size checks, ReadI64LE, Session.PushAudio
BinaryFrame(c, load) ==
  /\ ~crashed
  /\ pc[c] = "loop"
  /\ \E size \in load.sizes, off \in load.offsets :
       LET si == sessionIndex[c]
           start == IF si = None THEN off ELSE sess[si].eng.accumulated + off
           gap == IF si = None THEN 0 ELSE off
           frame == [kind |-> "Binary", size |-> size, start |-> start, gap |-> gap]
       IN  IF si = None
           THEN /\ off = 0
                /\ Sends(c, frame,
                         <<ErrorMsg(c, "StartSession must be called before PushAudio")>>)
                /\ Handled(c)
                /\ UNCHANGED <<sess, sockOk>>
           ELSE IF BadPayload(size)
           THEN /\ off = 0
                /\ Sends(c, frame, <<ErrorMsg(c, "Invalid PushAudio binary payload")>>)
                /\ Handled(c)
                /\ UNCHANGED <<sess, sockOk>>
           ELSE IF ~ReadI64LE(start, size).has
           THEN /\ off = 0
                /\ Sends(c, frame, <<ErrorMsg(c, "Invalid PushAudio header")>>)
                /\ Handled(c)
                /\ UNCHANGED <<sess, sockOk>>
           ELSE /\ start + (size - 8) \div 2 <= load.cap
                /\ wire[c].nPush < MaxPushes
                /\ \E env \in load.envs :
                     \E m \in {PushAudio(sess[si], start, (size - 8) \div 2, sockOk[c],
                                         env)} :
                         /\ sess' = [sess EXCEPT ![si] = SessionAfter(sess[si], m)]
                         /\ sockOk' = [sockOk EXCEPT ![c] = m.alive \/ m.blocked]
                         /\ pc' = [pc EXCEPT ![c] = IF m.blocked THEN "blocked"
                                                                  ELSE "handled"]
                         /\ SendsFrom(c, WirePush(wire[c], start, gap, env, sockOk[c]),
                                      [kind |-> "PushAudio", size |-> size,
                                       start |-> start, gap |-> gap, peak |-> m.peak,
                                       ret |-> m.ret, nErr |-> m.nErr, accum |-> m.accum,
                                       drove |-> m.nExec > 0,
                                       droveOn |-> m.failExec # None
                                                   /\ m.nExec > m.failExec],
                                      m.out)
                         /\ NoPoolCall(c)
  /\ UNCHANGED <<freeIndices, sessionIndex, crashed, valVars>>

\* The send that blocked inside PushAudio fails once the peer is gone: the flush and
\* PushAudio return false, the loop body is over
SendUnblocked(c) ==
  /\ ~crashed
  /\ pc[c] = "blocked"
  /\ ~sockOk[c]
  /\ pc' = [pc EXCEPT ![c] = "handled"]
  /\ UNCHANGED <<poolVars, sessionIndex, idx, after, cur, reply, sockOk, wire, crashed,
                 valVars>>

\* HandleClient: the loop body is over, back to ReadFrame
Continue(c) ==
  /\ ~crashed
  /\ pc[c] = "handled"
  /\ pc' = [pc EXCEPT ![c] = "loop"]
  /\ cur' = [cur EXCEPT ![c] = NoFrame]
  /\ reply' = [reply EXCEPT ![c] = <<>>]
  /\ NoPoolCall(c)
  /\ wire' = [wire EXCEPT ![c] = IF sessionIndex[c] = None
                                 THEN [wire[c] EXCEPT !.erred = FALSE, !.reused = FALSE]
                                 ELSE [wire[c] EXCEPT !.reused = FALSE]]
  /\ UNCHANGED <<poolVars, sessionIndex, sockOk, crashed, valVars>>

\* HandleClient returns: the worker thread and its socket are gone
ThreadExit(c) ==
  /\ ~crashed
  /\ pc[c] = "done"
  /\ pc' = [pc EXCEPT ![c] = "idle"]
  /\ cur' = [cur EXCEPT ![c] = NoFrame]
  /\ reply' = [reply EXCEPT ![c] = <<>>]
  /\ sockOk' = [sockOk EXCEPT ![c] = TRUE]
  /\ wire' = [wire EXCEPT ![c] = WireInit]
  /\ sessionIndex' = [sessionIndex EXCEPT ![c] = None]
  /\ NoPoolCall(c)
  /\ UNCHANGED <<poolVars, crashed, valVars>>

(***************************************************************************)
(* The server: every worker, any interleaving.                              *)
(***************************************************************************)
Worker(c, load) ==
  \/ Accept(c)
  \/ PeerGone(c, load)
  \/ Handshake(c)
  \/ ReadFail(c, load)
  \/ CloseFrame(c)
  \/ PingFrame(c, load)
  \/ OtherFrame(c, load)
  \/ TextInvalidJson(c)
  \/ TextTypeThrows(c, load)
  \/ TextUnknownType(c)
  \/ StartSession(c, load)
  \/ AcquireReset(c, load)
  \/ AcquirePushBack(c)
  \/ AcquireStart(c, load)
  \/ EndSession(c, load)
  \/ ReleaseStop(c)
  \/ ReleasePush(c)
  \/ ReleaseReply(c)
  \/ BinaryFrame(c, load)
  \/ SendUnblocked(c)
  \/ Continue(c)
  \/ ThreadExit(c)

Next == \E c \in Conns : Worker(c, SharedLoad)

Spec == Init /\ [][Next]_vars

\* Two sessions side by side
NextPair == Worker(1, PairLoad) \/ Worker(2, QuietLoad)

SpecPair == InitPair /\ [][NextPair]_vars

\* One connection at a time, under the full load
NextSolo == Worker(1, SoloLoad)

SpecSolo == Init /\ [][NextSolo]_vars

\* What a worker thread does without waiting for its peer: the steps of Acquire and
\* Release, the replies after them, the return to ReadFrame, the return of a failed
\* send, the end of the thread
ServerStep(c, load) ==
  \/ AcquireReset(c, load)
  \/ AcquirePushBack(c)
  \/ AcquireStart(c, load)
  \/ ReleaseStop(c)
  \/ ReleasePush(c)
  \/ ReleaseReply(c)
  \/ SendUnblocked(c)
  \/ Continue(c)
  \/ ThreadExit(c)

\* One connection under the stalled-reader load; a scheduled worker thread keeps running
NextStalled == Worker(1, StalledLoad)

SpecStalled ==
  Init /\ [][NextStalled]_vars /\ WF_vars(ServerStep(1, StalledLoad))

(***************************************************************************)
(* The SessionContext methods at the grain of the session mutex: a thread   *)
(* enters a public method, constructs the lock_guard (waiting while another *)
(* thread holds the mutex), runs the body, and leaves.  Any thread may call *)
(* any method of any session at any time, which is more than HandleClient   *)
(* and SessionPool do.  cur[c] of a thread inside a body says which thread  *)
(* made the accesses (by, and cbBy for those of the OnDeviceResults calls)  *)
(* and whether it held the mutex then.                                      *)
(***************************************************************************)
Methods ==
  {"Start", "Stop", "ResetForReuse", "SessionId", "DescribeSessionStarted", "PushAudio"}

\* A lock_guard that locks nothing
LockGuard_None(s, c) == s

\* std::lock_guard<std::mutex> lock(_mutex), once the mutex is free
LockGuard(s, c) == [s EXCEPT !.mutex = c]

\* The lock_guard's destructor
Unlock(s) == [s EXCEPT !.mutex = None]

\* The thread that runs OnDeviceResults for an Execute call made by thread c:
\* the executor invokes the callback synchronously
CallbackThread(c) == c

\* A thread calls a method.  PushAudio with startSampleIndex >= 0 first runs
\* SetCudaDeviceIfNeeded(_cudaDeviceForThread), a field no one writes after Init
CallMethod(c) ==
  /\ ~crashed
  /\ pc[c] = "idle"
  /\ \E method \in Methods, s \in Sessions, negative \in BOOLEAN :
       /\ negative => method = "PushAudio"
       /\ cur' = [cur EXCEPT ![c] = [kind |-> "Call", method |-> method, s |-> s,
                                     negative |-> negative]]
       /\ pc' = [pc EXCEPT ![c] = IF method = "PushAudio" /\ ~negative
                                  THEN "m_device" ELSE "m_lock"]
  /\ UNCHANGED <<poolVars, sessionIndex, idx, after, reply, sockOk, wire, crashed, valVars>>

\* PushAudio: SetCudaDeviceIfNeeded, before any lock
MethodSetDevice(c) ==
  /\ ~crashed
  /\ pc[c] = "m_device"
  /\ \E fails \in BOOLEAN :
       cur' = [cur EXCEPT ![c] = [kind |-> "Call", method |-> "PushAudio", s |-> cur[c].s,
                                 negative |-> FALSE, deviceFails |-> fails]]
  /\ pc' = [pc EXCEPT ![c] = "m_lock"]
  /\ UNCHANGED <<poolVars, sessionIndex, idx, after, reply, sockOk, wire, crashed, valVars>>

\* The lock_guard at the head of the method (or of the error branch of PushAudio)
MethodLock(c) ==
  /\ ~crashed
  /\ pc[c] = "m_lock"
  /\ sess[cur[c].s].mutex = None
  /\ sess' = [sess EXCEPT ![cur[c].s] = LockGuard(sess[cur[c].s], c)]
  /\ pc' = [pc EXCEPT ![c] = "m_body"]
  /\ UNCHANGED <<freeIndices, sessionIndex, idx, after, cur, reply, sockOk, wire, crashed,
                 valVars>>

\* What the body of the method leaves of session record s, called by thread c
MethodResult(method, s, c, call, sid, fault) ==
  CASE method = "Start" -> [s |-> Start(s, c, sid), out |-> <<>>, nCb |-> 0]
    [] method = "Stop" -> [s |-> Stop(s), out |-> <<>>, nCb |-> 0]
    [] method = "ResetForReuse" ->
         [s |-> ResetForReuse(s, fault).s, out |-> <<>>, nCb |-> 0]
    [] method = "PushAudio" ->
         LET env == Env(1, IF ~call.negative /\ call.deviceFails THEN "setDevice"
                                                                 ELSE "none",
                        1, Unlimited, FALSE)
             start == IF call.negative THEN -1 ELSE s.eng.accumulated
             m == PushAudio(s, start, ChunkSamples, TRUE, env)
         IN  [s |-> SessionAfter(s, m), out |-> m.out, nCb |-> m.nCb]
    [] OTHER -> [s |-> s, out |-> <<>>, nCb |-> 0]

\* The body of the method: every access to the session's fields.  Start takes a
\* session id and ResetForReuse meets an engine that resets or fails to; PushAudio
\* takes one chunk, while the push bound allows it
MethodBody(c) ==
  /\ ~crashed
  /\ pc[c] = "m_body"
  /\ LET s == cur[c].s
         method == cur[c].method
         to == sess[s].wsSocket
         sids == IF method = "Start" THEN SharedLoad.sessionIds ELSE {""}
         faults == IF method = "ResetForReuse" THEN SharedLoad.resetFaults ELSE {"none"}
     IN  /\ method = "PushAudio" =>
              sess[s].eng.accumulated + ChunkSamples <= MaxPushes * ChunkSamples
         /\ \E r \in {MethodResult(method, sess[s], c, cur[c], sid, fault) :
                         sid \in sids, fault \in faults} :
              /\ sess' = [sess EXCEPT ![s] = r.s]
              /\ reply' = IF r.out # <<>> /\ to \in Conns
                          THEN [reply EXCEPT ![to] = r.out] ELSE reply
              /\ cur' = [cur EXCEPT ![c] =
                           [kind |-> "Access", method |-> method, s |-> s,
                            by |-> c, held |-> sess[s].mutex = c,
                            callbacks |-> r.nCb, cbBy |-> CallbackThread(c),
                            cbHeld |-> sess[s].mutex = CallbackThread(c)]]
  /\ pc' = [pc EXCEPT ![c] = "m_unlock"]
  /\ UNCHANGED <<freeIndices, sessionIndex, idx, after, sockOk, wire, crashed, valVars>>

\* The method returns: the lock_guard goes out of scope
MethodUnlock(c) ==
  /\ ~crashed
  /\ pc[c] = "m_unlock"
  /\ sess' = [sess EXCEPT ![cur[c].s] = Unlock(sess[cur[c].s])]
  /\ pc' = [pc EXCEPT ![c] = "m_return"]
  /\ UNCHANGED <<freeIndices, sessionIndex, idx, after, cur, reply, sockOk, wire, crashed,
                 valVars>>

\* The caller goes on
MethodReturn(c) ==
  /\ ~crashed
  /\ pc[c] = "m_return"
  /\ cur' = [cur EXCEPT ![c] = NoFrame]
  /\ pc' = [pc EXCEPT ![c] = "idle"]
  /\ UNCHANGED <<poolVars, sessionIndex, idx, after, reply, sockOk, wire, crashed, valVars>>

NextLocked ==
  \E c \in Conns :
    \/ CallMethod(c)
    \/ MethodSetDevice(c)
    \/ MethodLock(c)
    \/ MethodBody(c)
    \/ MethodUnlock(c)
    \/ MethodReturn(c)

SpecLocked == Init /\ [][NextLocked]_vars

(***************************************************************************)
(* StartSession validation on its own: ValidateStartSessionRequest applied *)
(* to every request of a family of hint combinations.                       *)
(***************************************************************************)
ModelHints ==
  {Absent, JStr(ServerModel), JStr(<<".", "/", "d", "\\", "m", "/", " ">>),
   JStr(<<"x">>), JInt(1)}

FpsHints == {Absent, JInt(60), JInt(30), JInt(0), JFloat}

FrameRateHints ==
  {Absent, JRate(JInt(60), JInt(1)), JRate(JInt(30), JInt(1)), JRate(JInt(120), JInt(2)),
   JRate(JInt(60), Absent)}

OptionHints ==
  {Absent, JInt(1), JOpts(JBool(TRUE), Absent), JOpts(JBool(FALSE), Absent),
   JOpts(Absent, JStr(<<"s","k","i","n","_","t","o","n","g","u","e">>)),
   JOpts(JBool(TRUE), JStr(<<"x">>))}

ValidationRequests ==
  {Req(m, f, r, o) : m \in ModelHints, f \in FpsHints, r \in FrameRateHints,
                     o \in OptionHints}

InitValidate ==
  /\ InitServer
  /\ vReq \in ValidationRequests
  /\ vRes = NotValidated

\* HandleClient's call of ValidateStartSessionRequest on the request
Validate ==
  /\ vRes = NotValidated
  /\ vRes' = ValidateStartSessionRequest(vReq, DescribeSessionStarted)
  /\ UNCHANGED <<poolVars, connVars, vReq>>

NextValidate == Validate

SpecValidate == InitValidate /\ [][NextValidate]_vars

(***************************************************************************)
(* The frame codec on its own: SendFrame writes a frame to a byte stream,   *)
(* ReadFrame reads one back.  Bytes are 0..255, a stream is a sequence of   *)
(* bytes; lengths stay below 2^31, so the upper four bytes of a 64-bit      *)
(* length are 0 when written and must be 0 (and the fifth below 128) for    *)
(* the length read to pass any cap considered here.                         *)
(***************************************************************************)
\* enum class Opcode
OpText == 1
OpBinary == 2
OpClose == 8
OpPing == 9

\* HandleClient: kMaxPayload, the cap it passes to ReadFrame
kMaxPayload == 4 * 1024 * 1024

RECURSIVE Pow2(_)
Pow2(n) == IF n = 0 THEN 1 ELSE 2 * Pow2(n - 1)

\* Bit k of byte b
Bit(b, k) == (b \div Pow2(k)) % 2

\* a ^ b on four-bit halves, tabulated, and on bytes
XorNibble ==
  [a \in 0..15 |-> [b \in 0..15 |->
     LET x(k) == IF Bit(a, k) # Bit(b, k) THEN Pow2(k) ELSE 0
     IN  x(0) + x(1) + x(2) + x(3)]]
XorByte(a, b) == 16 * XorNibble[a \div 16][b \div 16] + XorNibble[a % 16][b % 16]

\* A length test that takes 126 for a 7-bit length
FitsIn7Bits_Late(payloadLen) == payloadLen <= 126

\* SendFrame: payloadLen <= 125
FitsIn7Bits(payloadLen) == payloadLen <= 125

\* SendFrame: (payloadLen >> (i * 8)) & 0xff
LenByte(payloadLen, i) == IF i >= 4 THEN 0 ELSE (payloadLen \div Pow2(8 * i)) % 256

\* a2fws::SendFrame: the bytes handed to SendAll
SendFrame(opcode, payload) ==
  LET payloadLen == Len(payload)
      first == <<128 + (opcode % 16)>>
      header == IF FitsIn7Bits(payloadLen) THEN first \o <<payloadLen>>
                ELSE IF payloadLen <= 65535
                THEN first \o <<126, LenByte(payloadLen, 1), LenByte(payloadLen, 0)>>
                ELSE first \o <<127>> \o [k \in 1..8 |-> LenByte(payloadLen, 8 - k)]
  IN  header \o payload

\* Socket::RecvAll of n bytes at position pos of the stream
CanRecv(stream, pos, n) == pos + n - 1 <= Len(stream)
Recv(stream, pos, n) == SubSeq(stream, pos, pos + n - 1)

\* A length beyond every cap
TooLong == None

\* ReadFrame: the big-endian extended length
BigEndian16(ext) == ext[1] * 256 + ext[2]
BigEndian64(ext) ==
  IF ext[1] # 0 \/ ext[2] # 0 \/ ext[3] # 0 \/ ext[4] # 0 \/ ext[5] >= 128 THEN TooLong
  ELSE ((ext[5] * 256 + ext[6]) * 256 + ext[7]) * 256 + ext[8]

\* ReadFrame returns false; read = the bytes RecvAll took off the stream before
\* that (a RecvAll that meets the end of the stream takes what is left of it),
\* resized = whether outFrame.payload was resized
ReadFailed(stream, read, resized) ==
  [ok |-> FALSE, fin |-> FALSE, opcode |-> 0, payload |-> <<>>, rest |-> stream,
   read |-> read, resized |-> resized]

\* A fin test that lets every frame pass
NotFinal_Never(fin) == FALSE

\* ReadFrame: if (!fin) return false, no fragmentation support
NotFinal(fin) == ~fin

\* A cap test that also turns away a frame of exactly the cap
ExceedsCap_AtCap(payloadLen, maxPayloadBytes) ==
  payloadLen = TooLong \/ payloadLen >= maxPayloadBytes

\* ReadFrame: payloadLen > maxPayloadBytes
ExceedsCap(payloadLen, maxPayloadBytes) ==
  payloadLen = TooLong \/ payloadLen > maxPayloadBytes

\* a2fws::ReadFrame on the stream: [ok, fin, opcode, payload], rest = what is left of
\* the stream when it returns true
ReadFrame(stream, maxPayloadBytes) ==
  IF ~CanRecv(stream, 1, 2) THEN ReadFailed(stream, Len(stream), FALSE)
  ELSE
  LET header == Recv(stream, 1, 2)
      fin == header[1] >= 128
      opcode == header[1] % 16
      masked == header[2] >= 128
      len7 == header[2] % 128
      extSize == IF len7 = 126 THEN 2 ELSE IF len7 = 127 THEN 8 ELSE 0
  IN  IF NotFinal(fin) THEN ReadFailed(stream, 2, FALSE)
      ELSE IF ~CanRecv(stream, 3, extSize) THEN ReadFailed(stream, Len(stream), FALSE)
      ELSE
      LET ext == Recv(stream, 3, extSize)
          payloadLen == IF len7 = 126 THEN BigEndian16(ext)
                        ELSE IF len7 = 127 THEN BigEndian64(ext)
                        ELSE len7
          keyPos == 3 + extSize
          keySize == IF masked THEN 4 ELSE 0
          dataPos == keyPos + keySize
      IN  IF ExceedsCap(payloadLen, maxPayloadBytes)
          THEN ReadFailed(stream, 2 + extSize, FALSE)
          ELSE IF ~CanRecv(stream, keyPos, keySize)
          THEN ReadFailed(stream, Len(stream), FALSE)
          ELSE IF ~CanRecv(stream, dataPos, payloadLen)
          THEN ReadFailed(stream, Len(stream), TRUE)
          ELSE
          LET maskKey == Recv(stream, keyPos, keySize)
              data == Recv(stream, dataPos, payloadLen)
              payload == IF masked
                         THEN [i \in 1..payloadLen |->
                                 XorByte(data[i], maskKey[((i - 1) % 4) + 1])]
                         ELSE data
          IN  [ok |-> TRUE, fin |-> fin, opcode |-> opcode, payload |-> payload,
               rest |-> SubSeq(stream, dataPos + payloadLen, Len(stream)),
               read |-> dataPos + payloadLen - 1, resized |-> TRUE]

\* Payloads of the lengths at which the length encoding changes, bytes that follow
\* the frame on the stream, caps
Pattern(n, seed) == [i \in 1..n |-> (seed + 7 * i) % 256]
PayloadLengths == {0, 1, 125, 126, 65535, 65536}
Seeds == {0, 129}
Tails == {<<>>, <<129, 5>>, <<130, 254, 0, 0>>}
Caps == {kMaxPayload, 125}
CodecInputs ==
  {[opcode |-> o, payload |-> Pattern(n, seed), tail |-> tail] :
     o \in {OpText, OpBinary}, n \in PayloadLengths, seed \in Seeds, tail \in Tails}

InitCodec ==
  /\ InitServer
  /\ vReq \in CodecInputs
  /\ vRes = [stage |-> "new"]

\* The sender writes the frame; more bytes may follow it on the stream
CodecSend ==
  /\ vRes.stage = "new"
  /\ vRes' = [stage |-> "sent", stream |-> SendFrame(vReq.opcode, vReq.payload) \o vReq.tail]
  /\ UNCHANGED <<poolVars, connVars, vReq>>

\* The receiver reads one frame from the stream
CodecRead ==
  /\ vRes.stage = "sent"
  /\ \E cap \in Caps :
       vRes' = [stage |-> "read", cap |-> cap, frame |-> ReadFrame(vRes.stream, cap)]
  /\ UNCHANGED <<poolVars, connVars, vReq>>

NextCodec == CodecSend \/ CodecRead

SpecCodec == InitCodec /\ [][NextCodec]_vars

(***************************************************************************)
(* ReadFrame against what a peer may write: any opcode, fin set or not, a   *)
(* length declared in the 7-bit, 16-bit or 64-bit form (not always the      *)
(* shortest one), masked or not, a body that arrives whole or not at all.   *)
(* vReq describes the peer's frame and the cap; vRes keeps of ReadFrame's   *)
(* result what the caller can observe, the payload as its length and        *)
(* whether it is the body the peer sent.                                    *)
(***************************************************************************)
\* The length bytes of a header declaring n bytes: the second header byte (without
\* the mask bit) and the extended length
Declare(form, n) ==
  IF form = 7 THEN <<n>>
  ELSE IF form = 16 THEN <<126, (n \div 256) % 256, n % 256>>
  ELSE <<127, 0, 0, 0, 0>> \o [k \in 1..4 |-> (n \div Pow2(8 * (4 - k))) % 256]

\* The forms in which a peer can declare n bytes
Forms(n) == {f \in {7, 16, 64} : (f = 7 => n <= 125) /\ (f = 16 => n <= 65535)}

\* Extended lengths of 2^32 and of 2^63
HugeLengths == {<<127, 0, 0, 0, 1, 0, 0, 0, 0>>, <<127, 128, 0, 0, 0, 0, 0, 0, 0>>}

PeerKey == <<55, 250, 33, 61>>
PeerTail == <<129, 5>>

PeerFrame(fin, opcode, lenBytes, declared, masked, body, cap) ==
  [fin |-> fin, opcode |-> opcode, lenBytes |-> lenBytes, declared |-> declared,
   masked |-> masked, body |-> body, cap |-> cap]

\* The body the peer means to send, and the bytes it puts on the stream: the
\* header, then (if the body arrives) the mask key, the body and the next header
PeerBody(f) == Pattern(f.declared, 3)
PeerStream(f) ==
  LET first == <<(IF f.fin THEN 128 ELSE 0) + f.opcode>>
      second == <<f.lenBytes[1] + (IF f.masked THEN 128 ELSE 0)>>
      ext == SubSeq(f.lenBytes, 2, Len(f.lenBytes))
      n == f.declared
  IN  first \o second \o ext
      \o (IF f.body # "whole" THEN <<>>
          ELSE IF f.masked
          THEN PeerKey \o [i \in 1..n |-> XorByte((3 + 7 * i) % 256,
                                                   PeerKey[((i - 1) % 4) + 1])]
                       \o PeerTail
          ELSE PeerBody(f) \o PeerTail)

\* Caps at which the form of the length changes, and the dispatcher's cap
LimitCaps == {0, 125, 126, 65535, 65536, kMaxPayload}

\* Final frames that declare exactly the cap or one byte more, in every form,
\* masked or not (the frame of exactly 4 MiB: not masked)
LimitFrames(cap) ==
  UNION {{PeerFrame(TRUE, OpBinary, Declare(form, n), n, masked, body, cap) :
            form \in Forms(n), masked \in IF n = kMaxPayload THEN {FALSE} ELSE BOOLEAN,
            body \in {"whole", "none"}} :
         n \in {cap, cap + 1}}

\* Final frames that declare a length beyond 2^31
HugeFrames ==
  {PeerFrame(TRUE, OpBinary, h, TooLong, masked, "none", kMaxPayload) :
     h \in HugeLengths, masked \in BOOLEAN}

\* Frames of every opcode with fin set or not
FragmentLengths == {0, 125, 126, 65536}
FinFrames ==
  UNION {{PeerFrame(fin, o, Declare(form, n), n, masked, body, kMaxPayload) :
            fin \in BOOLEAN, o \in 0..15, form \in Forms(n), masked \in BOOLEAN,
            body \in {"whole", "none"}} : n \in FragmentLengths}

LimitInputs == UNION {LimitFrames(cap) : cap \in LimitCaps} \cup HugeFrames

InitLimit ==
  /\ InitServer
  /\ vReq \in LimitInputs
  /\ vRes = [stage |-> "new"]

\* ReadFrame(sock, frame, cap) on the peer's bytes
LimitRead ==
  /\ vRes.stage = "new"
  /\ \E r \in {ReadFrame(PeerStream(vReq), vReq.cap)} :
       vRes' = [stage |-> "limit", ok |-> r.ok, fin |-> r.fin, opcode |-> r.opcode,
                read |-> r.read, resized |-> r.resized, size |-> Len(r.payload),
                intact |-> r.ok /\ r.payload = PeerBody(vReq),
                rest |-> IF r.ok THEN r.rest ELSE <<>>]
  /\ UNCHANGED <<poolVars, connVars, vReq>>

NextLimit == LimitRead

SpecLimit == InitLimit /\ [][NextLimit]_vars

(***************************************************************************)
(* The dispatcher's read: HandleClient calls ReadFrame on what the peer     *)
(* wrote and leaves the loop when it returns false.  A frame that is read   *)
(* and whose opcode is none of Ping, Close, Text, Binary falls through the  *)
(* loop body; the frames of those four opcodes are the subject of the       *)
(* handlers above and are left to them.  cur[c] keeps the peer's frame.     *)
(***************************************************************************)
\* A loop body without the Ping branch
Dispatches_NoPing(opcode) == opcode \in {OpText, OpBinary, OpClose}

\* HandleClient: the opcodes the loop body looks at
Dispatches(opcode) == opcode \in {OpText, OpBinary, OpClose, OpPing}

ReadPeerFrame(c, frames) ==
  /\ ~crashed
  /\ pc[c] = "loop"
  /\ \E f \in frames :
       \E r \in {ReadFrame(PeerStream(f), kMaxPayload)} :
         IF ~r.ok
         THEN /\ Sends(c, [kind |-> "ReadFail", why |-> "ReadFrame", frame |-> f,
                           read |-> r.read], <<>>)
              /\ LeaveLoop(c)
         ELSE /\ ~Dispatches(r.opcode)
              /\ Sends(c, [kind |-> "Other", opcode |-> r.opcode, frame |-> f,
                           read |-> r.read], <<>>)
              /\ Handled(c)
              /\ UNCHANGED sessionIndex
  /\ UNCHANGED <<poolVars, sockOk, crashed, valVars>>

\* One connection: it may start a session, and the peer writes frames of every
\* opcode with fin set or not
NextFragment ==
  \/ Accept(1)
  \/ Handshake(1)
  \/ StartSession(1, QuietLoad)
  \/ AcquireReset(1, QuietLoad)
  \/ AcquireStart(1, QuietLoad)
  \/ ReadPeerFrame(1, FinFrames)
  \/ ReleaseStop(1)
  \/ ReleasePush(1)
  \/ Continue(1)
  \/ ThreadExit(1)

SpecFragment == Init /\ [][NextFragment]_vars

(***************************************************************************)
(* The handshake's accept key: Sha1, Base64Encode and WebSocketAcceptKey.   *)
(* A string is a sequence of one-character strings, a byte is 0..255.  A    *)
(* std::uint32_t is held as its two 16-bit halves <<high, low>>, so that    *)
(* every intermediate value of a shift or a sum stays below 2^31.           *)
(***************************************************************************)
\* Base64Encode: kChars
kChars ==
  <<"A","B","C","D","E","F","G","H","I","J","K","L","M","N","O","P","Q","R","S","T","U",
    "V","W","X","Y","Z","a","b","c","d","e","f","g","h","i","j","k","l","m","n","o","p",
    "q","r","s","t","u","v","w","x","y","z","0","1","2","3","4","5","6","7","8","9","+",
    "/">>

\* The character set of the strings considered, with the ASCII code of each
AsciiChars ==
  <<"A","B","C","D","E","F","G","H","I","J","K","L","M","N","O","P","Q","R","S","T","U",
    "V","W","X","Y","Z","a","b","c","d","e","f","g","h","i","j","k","l","m","n","o","p",
    "q","r","s","t","u","v","w","x","y","z","0","1","2","3","4","5","6","7","8","9","+",
    "/","=","-">>
AsciiCodes ==
  [i \in 1..26 |-> 64 + i] \o [i \in 1..26 |-> 96 + i] \o [i \in 1..10 |-> 47 + i]
  \o <<43, 47, 61, 45>>
AsciiOf == [ch \in Range(AsciiChars) |->
              AsciiCodes[CHOOSE i \in 1..Len(AsciiChars) : AsciiChars[i] = ch]]

\* std::vector<std::uint8_t>(input.begin(), input.end())
Bytes(str) == [i \in 1..Len(str) |-> AsciiOf[str[i]]]

\* WebSocketAcceptKey: kGuid
kGuid ==
  <<"2","5","8","E","A","F","A","5","-","E","9","1","4","-","4","7","D","A","-",
    "9","5","C","A","-","C","5","A","B","0","D","C","8","5","B","1","1">>

\* a & b and a | b on four-bit halves, tabulated
AndNibble ==
  [a \in 0..15 |-> [b \in 0..15 |->
     LET x(k) == IF Bit(a, k) = 1 /\ Bit(b, k) = 1 THEN Pow2(k) ELSE 0
     IN  x(0) + x(1) + x(2) + x(3)]]
OrNibble ==
  [a \in 0..15 |-> [b \in 0..15 |->
     LET x(k) == IF Bit(a, k) = 1 \/ Bit(b, k) = 1 THEN Pow2(k) ELSE 0
     IN  x(0) + x(1) + x(2) + x(3)]]

\* A bitwise operation on 16-bit halves, nibble by nibble, and on words
Half(T, x, y) ==
  4096 * T[x \div 4096][y \div 4096] + 256 * T[(x \div 256) % 16][(y \div 256) % 16]
  + 16 * T[(x \div 16) % 16][(y \div 16) % 16] + T[x % 16][y % 16]
Xor32(x, y) == <<Half(XorNibble, x[1], y[1]), Half(XorNibble, x[2], y[2])>>
And32(x, y) == <<Half(AndNibble, x[1], y[1]), Half(AndNibble, x[2], y[2])>>
Or32(x, y) == <<Half(OrNibble, x[1], y[1]), Half(OrNibble, x[2], y[2])>>
Not32(x) == <<65535 - x[1], 65535 - x[2]>>

\* Sums of std::uint32_t wrap at 2^32
Add32(x, y) ==
  LET low == x[2] + y[2]
  IN  <<(x[1] + y[1] + low \div 65536) % 65536, low % 65536>>

\* Sha1: leftRotate(value, bits), 0 < bits < 32
LeftRotate(value, bits) ==
  LET v == IF bits >= 16 THEN <<value[2], value[1]>> ELSE value
      n == bits % 16
      up(h) == (h * Pow2(n)) % 65536
      down(h) == h \div Pow2(16 - n)
  IN  IF n = 0 THEN v ELSE <<up(v[1]) + down(v[2]), up(v[2]) + down(v[1])>>

\* A word from four bytes, big-endian, and back
Word(b1, b2, b3, b4) == <<b1 * 256 + b2, b3 * 256 + b4>>
StoreBE32(v) == <<v[1] \div 256, v[1] % 256, v[2] \div 256, v[2] % 256>>

\* Sha1: the message with 0x80, the zero padding and the 64-bit bit length
\* (lengths stay below 2^24 bytes, so the upper four length bytes are 0)
Sha1Pad(input) ==
  LET n == Len(input)
      zeros == (119 - (n % 64)) % 64
      bitLen == 8 * n
  IN  input \o <<128>> \o [i \in 1..zeros |-> 0] \o <<0, 0, 0, 0>>
      \o <<(bitLen \div 16777216) % 256, (bitLen \div 65536) % 256,
           (bitLen \div 256) % 256, bitLen % 256>>

\* Sha1: the initial h0..h4
Sha1Init == <<<<26437, 8961>>, <<61389, 43913>>, <<39098, 56574>>, <<4146, 21622>>,
              <<50130, 57840>>>>

\* Sha1: w[0..79] of the chunk that starts at byte `chunk` (0-based)
Sha1NextW(w) ==
  LET i == Len(w) + 1
  IN  LeftRotate(Xor32(Xor32(w[i - 3], w[i - 8]), Xor32(w[i - 14], w[i - 16])), 1)
RECURSIVE Sha1Extend(_, _)
Sha1Extend(w, n) ==
  IF n = Len(w) THEN w
  ELSE IF n = Len(w) + 1 THEN Append(w, Sha1NextW(w))
  ELSE Only({Sha1Extend(x, n) : x \in {Sha1Extend(w, (Len(w) + n) \div 2)}})
Sha1Schedule(msg, chunk) ==
  Sha1Extend([i \in 1..16 |->
                Word(msg[chunk + 4 * i - 3], msg[chunk + 4 * i - 2],
                     msg[chunk + 4 * i - 1], msg[chunk + 4 * i])], 80)

\* A round function that is b ^ c ^ d in every round
Sha1F_Parity(i, b, c, d) == Xor32(Xor32(b, c), d)

\* Sha1: f and k of round i (0-based)
Sha1F(i, b, c, d) ==
  IF i < 20 THEN Or32(And32(b, c), And32(Not32(b), d))
  ELSE IF i < 40 THEN Xor32(Xor32(b, c), d)
  ELSE IF i < 60 THEN Or32(Or32(And32(b, c), And32(b, d)), And32(c, d))
  ELSE Xor32(Xor32(b, c), d)
Sha1K(i) ==
  IF i < 20 THEN <<23170, 31129>>
  ELSE IF i < 40 THEN <<28377, 60321>>
  ELSE IF i < 60 THEN <<36635, 48348>>
  ELSE <<51810, 49622>>

\* Sha1: one round on <<a, b, c, d, e>>
Sha1Round(v, i, wi) ==
  LET temp == Add32(Add32(Add32(Add32(LeftRotate(v[1], 5), Sha1F(i, v[2], v[3], v[4])),
                                v[5]), Sha1K(i)), wi)
  IN  <<temp, v[1], LeftRotate(v[2], 30), v[3], v[4]>>

\* Sha1: rounds lo .. hi - 1
RECURSIVE Sha1Rounds(_, _, _, _)
Sha1Rounds(v, w, lo, hi) ==
  IF hi = lo + 1 THEN Sha1Round(v, lo, w[lo + 1])
  ELSE Only({Sha1Rounds(x, w, (lo + hi) \div 2, hi) :
               x \in {Sha1Rounds(v, w, lo, (lo + hi) \div 2)}})

\* Sha1: the body of the chunk loop, from h0..h4 to the next h0..h4
Sha1Chunk(h, msg, chunk) ==
  Only({[j \in 1..5 |-> Add32(h[j], v[j])] :
          v \in {Sha1Rounds(h, w, 0, 80) : w \in {Sha1Schedule(msg, chunk)}}})

\* Sha1: the digest bytes of h0..h4
Sha1Digest(h) ==
  StoreBE32(h[1]) \o StoreBE32(h[2]) \o StoreBE32(h[3]) \o StoreBE32(h[4])
  \o StoreBE32(h[5])

\* Base64Encode: the four characters of the group that starts at byte i (0-based)
Base64Group(data, i) ==
  LET len == Len(data)
      octetA == data[i + 1]
      octetB == IF i + 1 < len THEN data[i + 2] ELSE 0
      octetC == IF i + 2 < len THEN data[i + 3] ELSE 0
      triple == octetA * 65536 + octetB * 256 + octetC
  IN  <<kChars[((triple \div 262144) % 64) + 1],
        kChars[((triple \div 4096) % 64) + 1],
        IF i + 1 < len THEN kChars[((triple \div 64) % 64) + 1] ELSE "=",
        IF i + 2 < len THEN kChars[(triple % 64) + 1] ELSE "=">>

RECURSIVE Base64From(_, _)
Base64From(data, i) ==
  IF i >= Len(data) THEN <<>> ELSE Base64Group(data, i) \o Base64From(data, i + 3)

\* a2fws Base64Encode(data, len)
Base64Encode(data) == Base64From(data, 0)

\* Client keys: the sample key of RFC 6455 and keys over the Base64 alphabet of
\* lengths at which the padded message takes one, two or three chunks (with the 36
\* characters of kGuid: 55 and 56 bytes at lengths 19 and 20, 119 and 120 at 83, 84)
RfcKey ==
  <<"d","G","h","l","I","H","N","h","b","X","B","s","Z","S","B","u","b","2","5","j",
    "Z","Q","=","=">>
KeyLengths == {1, 16, 19, 20, 24, 27, 28, 83, 84}
KeySeeds == {0, 1}
KeyOf(n, seed) == [i \in 1..n |-> kChars[((seed + 5 * i + (i \div 7)) % 64) + 1]]
ClientKeys == {RfcKey} \cup {KeyOf(n, seed) : n \in KeyLengths, seed \in KeySeeds}

InitAccept ==
  /\ InitServer
  /\ vReq \in {[key |-> k] : k \in ClientKeys}
  /\ vRes = [stage |-> "new"]

\* WebSocketAcceptKey: combined = key + kGuid; Sha1: the padded message and h0..h4
AcceptCombine ==
  /\ vRes.stage = "new"
  /\ vRes' = [stage |-> "chunks", msg |-> Sha1Pad(Bytes(vReq.key \o kGuid)),
              h |-> Sha1Init, chunk |-> 0]
  /\ UNCHANGED <<poolVars, connVars, vReq>>

\* Sha1: one turn of the chunk loop
AcceptChunk ==
  /\ vRes.stage = "chunks"
  /\ vRes.chunk < Len(vRes.msg)
  /\ vRes' = [vRes EXCEPT !.h = Sha1Chunk(vRes.h, vRes.msg, vRes.chunk),
                          !.chunk = vRes.chunk + 64]
  /\ UNCHANGED <<poolVars, connVars, vReq>>

\* Sha1: storeBE32 of h0..h4
AcceptDigest ==
  /\ vRes.stage = "chunks"
  /\ vRes.chunk >= Len(vRes.msg)
  /\ vRes' = [stage |-> "digest", digest |-> Sha1Digest(vRes.h)]
  /\ UNCHANGED <<poolVars, connVars, vReq>>

\* WebSocketAcceptKey: return Base64Encode(digest.data(), digest.size())
AcceptEncode ==
  /\ vRes.stage = "digest"
  /\ vRes' = [stage |-> "accept", accept |-> Base64Encode(vRes.digest)]
  /\ UNCHANGED <<poolVars, connVars, vReq>>

NextAccept == AcceptCombine \/ AcceptChunk \/ AcceptDigest \/ AcceptEncode

SpecAccept == InitAccept /\ [][NextAccept]_vars

(***************************************************************************)
(* The animation frame payload: OnDeviceResults stages a result (its        *)
(* weights into a slot of the staging buffer, its indices and time stamps   *)
(* into the pending queue), the flush builds one payload per pending frame. *)
(* A float is the four bytes it occupies in memory; 64-bit values are the   *)
(* integers of the model, so the upper four bytes carry the sign only.      *)
(***************************************************************************)
kFrameMagicA2FB == 1111896641
kProtocolVersion == 1

\* AppendU32LE, AppendU64LE, AppendI64LE: the bytes pushed to the buffer
AppendU32LE(v) == [i \in 1..4 |-> (v \div Pow2(8 * (i - 1))) % 256]
AppendU64LE(v) ==
  [i \in 1..8 |-> IF i <= 4 THEN (v \div Pow2(8 * (i - 1))) % 256
                  ELSE IF v < 0 THEN 255 ELSE 0]
AppendI64LE(v) == AppendU64LE(v)

\* _weightsStaging->View(offset, count): floats offset .. offset + count - 1
View(tensor, offset, count) == SubSeq(tensor, offset + 1, offset + count)

\* nva2x::CopyDeviceToHost(dst, results.weights, stream), dst = View(offset, count)
CopyDeviceToHost(tensor, offset, weights) ==
  [i \in 1..Len(tensor) |->
     IF i > offset /\ i <= offset + Len(weights) THEN weights[i - offset] ELSE tensor[i]]

\* reinterpret_cast<const std::uint8_t*>(weights.Data()), count * sizeof(float) bytes
RECURSIVE FloatBytes(_)
FloatBytes(floats) ==
  IF floats = <<>> THEN <<>> ELSE Head(floats) \o FloatBytes(Tail(floats))

\* A payload that takes every frame's weights from the first slot
FramePayload_FirstSlot(frame, weightCount, weightsStaging) ==
  AppendU32LE(kFrameMagicA2FB) \o AppendU32LE(kProtocolVersion)
  \o AppendU32LE(weightCount) \o AppendU32LE(0)
  \o AppendU64LE(frame.frameIndex) \o AppendI64LE(frame.tsCurrent)
  \o AppendI64LE(frame.tsNext)
  \o FloatBytes(View(weightsStaging, 0, weightCount))

\* FlushPendingFramesLocked, the body of the loop over the pending frames: payload
FramePayload(frame, weightCount, weightsStaging) ==
  AppendU32LE(kFrameMagicA2FB) \o AppendU32LE(kProtocolVersion)
  \o AppendU32LE(weightCount) \o AppendU32LE(0)
  \o AppendU64LE(frame.frameIndex) \o AppendI64LE(frame.tsCurrent)
  \o AppendI64LE(frame.tsNext)
  \o FloatBytes(View(weightsStaging, frame.slotIndex * weightCount, weightCount))

\* Results the executor hands over: time stamps and weightCount floats
Float(seed) == <<seed % 256, (seed * 3 + 1) % 256, (seed * 7 + 2) % 256, (191 + seed) % 256>>
Result(tsCurrent, tsNext, weightCount, seed) ==
  [tsCurrent |-> tsCurrent, tsNext |-> tsNext,
   weights |-> [i \in 1..weightCount |-> Float(seed + 11 * i)]]

\* Frames staged per run, weight counts, first frame indices
PayloadFrames == 3
WeightCounts == {1, 2, 3}
FirstIndices == {0, 255, 65536, 2147483644}
TimeStamps == <<<<0, 533>>, <<-1, 0>>, <<16777215, 16777749>>, <<2147483046, 2147483647>>>>
ResultRuns(weightCount) ==
  {[i \in 1..n |-> Result(TimeStamps[((i + k) % 4) + 1][1], TimeStamps[((i + k) % 4) + 1][2],
                          weightCount, 40 * i + k)] :
     n \in 1..PayloadFrames, k \in 0..3}
PayloadInputs ==
  UNION {{[weightCount |-> wc, first |-> f, results |-> run] :
            f \in FirstIndices, run \in ResultRuns(wc)} : wc \in WeightCounts}

\* The session starts with an empty queue and a staging buffer whose previous
\* contents are arbitrary
InitPayload ==
  /\ InitServer
  /\ vReq \in PayloadInputs
  /\ vRes = [stage |-> "staging", pendingFrames |-> <<>>, nextFrameIndex |-> vReq.first,
             weightsStaging |-> [i \in 1..(PayloadFrames * vReq.weightCount) |-> Float(i)],
             flushed |-> 0, payload |-> <<>>]

\* OnDeviceResults for the next result, on the path that stages it
StageResult ==
  /\ vRes.stage = "staging"
  /\ Len(vRes.pendingFrames) < Len(vReq.results)
  /\ LET results == vReq.results[Len(vRes.pendingFrames) + 1]
         slotIndex == Len(vRes.pendingFrames)
         frame == [frameIndex |-> vRes.nextFrameIndex, tsCurrent |-> results.tsCurrent,
                   tsNext |-> results.tsNext, slotIndex |-> slotIndex]
     IN  vRes' = [vRes EXCEPT
                    !.weightsStaging = CopyDeviceToHost(vRes.weightsStaging,
                                                        slotIndex * vReq.weightCount,
                                                        results.weights),
                    !.nextFrameIndex = vRes.nextFrameIndex + 1,
                    !.pendingFrames = Append(vRes.pendingFrames, frame)]
  /\ UNCHANGED <<poolVars, connVars, vReq>>

\* FlushPendingFramesLocked, one turn of the loop: the payload of the next frame
BuildPayload ==
  /\ vRes.stage \in {"staging", "flushing"}
  /\ Len(vRes.pendingFrames) = Len(vReq.results)
  /\ vRes.flushed < Len(vRes.pendingFrames)
  /\ vRes' = [vRes EXCEPT
                !.stage = "flushing",
                !.flushed = vRes.flushed + 1,
                !.payload = FramePayload(vRes.pendingFrames[vRes.flushed + 1],
                                         vReq.weightCount, vRes.weightsStaging)]
  /\ UNCHANGED <<poolVars, connVars, vReq>>

NextPayload == StageResult \/ BuildPayload

SpecPayload == InitPayload /\ [][NextPayload]_vars

(***************************************************************************)
(* The staging queue, callback by callback: what a session's fields are     *)
(* after each OnDeviceResults call, each flush, and each detach and         *)
(* re-attach of the session.  vReq says whether the peer still takes what   *)
(* is sent; vRes holds the session record, what the last call did, and how   *)
(* many frames were staged since the session was attached.                  *)
(***************************************************************************)
\* What the executor may hand to the callback, or do to its copy
ResultFaults == {"none", "emptyWeights", "weightSize", "copy"}

\* Frames staged per explored session
MaxResults == 320

\* Queue lengths at which faults, flushes and detaches are explored: empty, one
\* frame, around the flush threshold, around the queue's capacity
EdgeLengths ==
  {0, 1, kFlushThresholdFrames - 1, kFlushThresholdFrames, kMaxStagedFrames - 1,
   kMaxStagedFrames}
FlushLengths == {kFlushThresholdFrames, kMaxStagedFrames}

InitResults ==
  /\ InitServer
  /\ vReq \in {[alive |-> a] : a \in BOOLEAN}
  /\ vRes = [stage |-> "results", s |-> Start(SessionInit, 1, "id-a"),
             call |-> [kind |-> "none"], staged |-> 0]

\* The executor calls OnDeviceResults once
ResultArrives ==
  /\ vRes.stage = "results"
  /\ vRes.s.nextFrameIndex < MaxResults
  /\ \E fault \in ResultFaults :
       /\ fault # "none" => Len(vRes.s.pendingFrames) \in EdgeLengths
       /\ \E m \in {OnDeviceResults(Machine(vRes.s, vReq.alive,
                                            Env(1, fault, 1, Unlimited, FALSE)),
                                    vRes.s.nextFrameIndex,
                                    Env(1, fault, 1, Unlimited, FALSE))} :
            vRes' = [vRes EXCEPT
                       !.s = SessionAfter(vRes.s, m),
                       !.call = [kind |-> "result", fault |-> fault, ret |-> m.ret,
                                 nErr |-> m.nErr, out |-> m.out],
                       !.staged = vRes.staged + Len(m.pendingFrames)
                                  - Len(vRes.s.pendingFrames)]
  /\ UNCHANGED <<poolVars, connVars, vReq>>

\* PushAudio flushes the queue
FlushQueue ==
  /\ vRes.stage = "results"
  /\ vRes.s.wsSocket # None
  /\ Len(vRes.s.pendingFrames) \in FlushLengths
  /\ \E m \in {FlushPendingFramesLocked(Machine(vRes.s, vReq.alive,
                                                Env(1, "none", 1, Unlimited, FALSE)),
                                        Env(1, "none", 1, Unlimited, FALSE))} :
       vRes' = [vRes EXCEPT !.s = SessionAfter(vRes.s, m),
                            !.call = [kind |-> "flush", ret |-> m.ret]]
  /\ UNCHANGED <<poolVars, connVars, vReq>>

\* SessionPool::Release: Stop
Detach ==
  /\ vRes.stage = "results"
  /\ vRes.s.wsSocket # None
  /\ Len(vRes.s.pendingFrames) \in EdgeLengths
  /\ vRes' = [vRes EXCEPT !.s = Stop(vRes.s), !.call = [kind |-> "stop"]]
  /\ UNCHANGED <<poolVars, connVars, vReq>>

\* SessionPool::Acquire: ResetForReuse, Start
Reattach ==
  /\ vRes.stage = "results"
  /\ vRes.s.wsSocket = None
  /\ vRes' = [vRes EXCEPT !.s = Start(ResetForReuse(vRes.s, "none").s, 1, "id-a"),
                          !.call = [kind |-> "start"], !.staged = 0]
  /\ UNCHANGED <<poolVars, connVars, vReq>>

NextResults == ResultArrives \/ FlushQueue \/ Detach \/ Reattach

SpecResults == InitResults /\ [][NextResults]_vars

(***************************************************************************)
(* ResetForReuse on the states a session can be in.  The session is         *)
(* attached, fed audio (the engine and the peer behaving as ResetEnvs       *)
(* says), possibly detached, possibly left half-reset by resets that        *)
(* failed; then it is reset twice in succession.  vRes holds the session,   *)
(* the session before the first successful reset and the one after it.      *)
(***************************************************************************)
\* What engine and socket do during the calls that precede the resets: a
\* frame per call, a send that fails with frames left in the queue, a copy
\* that fails, an executor that stages without reaching the flush threshold
ResetEnvs ==
  {Env(1, "none", 1, Unlimited, FALSE), Env(1, "none", 1, 0, FALSE),
   Env(1, "copy", 2, Unlimited, FALSE), Env(4, "none", 1, Unlimited, FALSE)}
ResetOffsets == {0, MaxGapSamples}
ResetFaults == {"executorReset", "audioReset", "emotionReset", "neutralAccumulate",
                "neutralClose"}

InitReset ==
  /\ InitServer
  /\ vReq \in {[sid |-> "id-a"], [sid |-> "id-b"]}
  /\ vRes = [stage |-> "use", s |-> Start(SessionInit, 1, vReq.sid), pushes |-> 0,
             before |-> SessionInit, first |-> SessionInit]

\* Session.PushAudio on the attached session
ResetPush ==
  /\ vRes.stage = "use"
  /\ vRes.pushes < MaxPushes
  /\ \E env \in ResetEnvs, off \in ResetOffsets :
       \E m \in {PushAudio(vRes.s, vRes.s.eng.accumulated + off, ChunkSamples, TRUE, env)} :
         vRes' = [vRes EXCEPT !.s = SessionAfter(vRes.s, m), !.pushes = vRes.pushes + 1]
  /\ UNCHANGED <<poolVars, connVars, vReq>>

\* SessionPool::Release: Stop
ResetDetach ==
  /\ vRes.stage = "use"
  /\ vRes.s.wsSocket # None
  /\ vRes' = [vRes EXCEPT !.s = Stop(vRes.s), !.pushes = MaxPushes]
  /\ UNCHANGED <<poolVars, connVars, vReq>>

\* A ResetForReuse that fails at one of its engine calls
ResetFails ==
  /\ vRes.stage = "use"
  /\ \E fault \in ResetFaults :
       \E r \in {ResetForReuse(vRes.s, fault)} :
         /\ ~r.ok
         /\ vRes' = [vRes EXCEPT !.s = r.s, !.pushes = MaxPushes]
  /\ UNCHANGED <<poolVars, connVars, vReq>>

\* The first ResetForReuse that succeeds
ResetOnce ==
  /\ vRes.stage = "use"
  /\ \E r \in {ResetForReuse(vRes.s, "none")} :
       /\ r.ok
       /\ vRes' = [vRes EXCEPT !.stage = "once", !.before = vRes.s, !.s = r.s,
                               !.first = r.s]
  /\ UNCHANGED <<poolVars, connVars, vReq>>

\* The ResetForReuse that follows it
ResetTwice ==
  /\ vRes.stage = "once"
  /\ \E r \in {ResetForReuse(vRes.s, "none")} :
       /\ r.ok
       /\ vRes' = [vRes EXCEPT !.stage = "twice", !.s = r.s]
  /\ UNCHANGED <<poolVars, connVars, vReq>>

NextReset == ResetPush \/ ResetDetach \/ ResetFails \/ ResetOnce \/ ResetTwice

SpecReset == InitReset /\ [][NextReset]_vars

(***************************************************************************)
(* Socket::RecvUntil as PerformServerHandshake calls it, and the ReadFrame  *)
(* that follows.  The client's stream is given by its length and by the     *)
(* position of the last byte of its first "\r\n\r\n" (0: there is none);    *)
(* out is the size of the accumulated string, and the socket's read         *)
(* position is the number of bytes recv has returned.                       *)
(***************************************************************************)
\* std::vector<char> buf(1024)
RecvBufSize == 1024
\* sock.RecvUntil(request, "\r\n\r\n", 16 * 1024)
HandshakeMaxBytes == 16384
\* The first frame a client sends: header, masking key and a two-byte payload
FirstFrameBytes == 2 + 4 + 2

\* Streams: a delimiter at the start, at the cap, one byte past the cap, as far
\* out as RecvUntil can get, further out, or none; followed by nothing, one
\* byte, or a frame
RecvStreams ==
  {[end |-> e, length |-> e + k] :
     e \in {4, RecvBufSize, HandshakeMaxBytes, HandshakeMaxBytes + 1,
            HandshakeMaxBytes + RecvBufSize - 1, HandshakeMaxBytes + RecvBufSize},
     k \in {0, 1, FirstFrameBytes}}
  \cup {[end |-> 0, length |-> HandshakeMaxBytes + 2 * RecvBufSize]}
\* What recv may return: one byte, a full buffer, or all that is left to come
RecvSizes == {1, RecvBufSize}

InitRecv ==
  /\ InitServer
  /\ vReq \in RecvStreams
  /\ vRes = [stage |-> "recv", out |-> 0, readFrom |-> 0]

\* RecvUntil: while (out.size() < maxBytes)
RecvMore(out, maxBytes) == out < maxBytes

\* RecvUntil, one turn of the loop with a recv that returns n bytes: append, find
RecvChunk ==
  /\ vRes.stage = "recv"
  /\ RecvMore(vRes.out, HandshakeMaxBytes)
  /\ \E n \in RecvSizes \cup {Min(RecvBufSize, vReq.length - vRes.out)} :
       /\ n >= 1
       /\ n <= Min(RecvBufSize, vReq.length - vRes.out)
       /\ vRes' = [vRes EXCEPT
                     !.out = vRes.out + n,
                     !.stage = IF vReq.end # 0 /\ vRes.out + n >= vReq.end
                               THEN "ok" ELSE "recv"]
  /\ UNCHANGED <<poolVars, connVars, vReq>>

\* RecvUntil, one turn of the loop with a recv that returns 0 or an error
RecvClosed ==
  /\ vRes.stage = "recv"
  /\ RecvMore(vRes.out, HandshakeMaxBytes)
  /\ vRes' = [vRes EXCEPT !.stage = "fail"]
  /\ UNCHANGED <<poolVars, connVars, vReq>>

\* RecvUntil: the loop ends, return false
RecvFull ==
  /\ vRes.stage = "recv"
  /\ ~RecvMore(vRes.out, HandshakeMaxBytes)
  /\ vRes' = [vRes EXCEPT !.stage = "fail"]
  /\ UNCHANGED <<poolVars, connVars, vReq>>

\* HandleClient after a handshake that succeeded: ReadFrame's first RecvAll
\* reads from the socket's read position
FirstReadFrame ==
  /\ vRes.stage = "ok"
  /\ vRes' = [vRes EXCEPT !.stage = "frame", !.readFrom = vRes.out + 1]
  /\ UNCHANGED <<poolVars, connVars, vReq>>

NextRecv == RecvChunk \/ RecvClosed \/ RecvFull \/ FirstReadFrame

SpecRecv == InitRecv /\ [][NextRecv]_vars

(***************************************************************************)
(* PerformServerHandshake on the request RecvUntil returned, and what        *)
(* HandleClient does with its result.  A request is a sequence of           *)
(* characters; the requests explored are a request line, up to               *)
(* MaxHeaderLines header lines, the blank line and what came with it.       *)
(***************************************************************************)
CR == "\r"
LF == "\n"
UpgradeName == <<"U","p","g","r","a","d","e">>
KeyName == <<"S","e","c","-","W","e","b","S","o","c","k","e","t","-","K","e","y">>
WebsocketText == <<"w","e","b","s","o","c","k","e","t">>
RequestLine == <<"G","E","T"," ","/"," ","H","T","T","P","/","1",".","1">>

\* websocket_server.cpp ToLower
ToLower(s) == [i \in 1..Len(s) |-> ToLowerChar(s[i])]

\* websocket_server.cpp Trim: [start, end) without the whitespace at either side
RECURSIVE TrimStart(_, _)
TrimStart(s, start) ==
  IF start < Len(s) /\ IsSpaceChar(s[start + 1]) THEN TrimStart(s, start + 1) ELSE start
RECURSIVE TrimEnd(_, _, _)
TrimEnd(s, start, end) ==
  IF end > start /\ IsSpaceChar(s[end]) THEN TrimEnd(s, start, end - 1) ELSE end
Trim(s) ==
  Only({SubSeq(s, start + 1, TrimEnd(s, start, Len(s))) : start \in {TrimStart(s, 0)}})

\* std::string::find(ch): the index of the first ch, 0 for npos
Find(s, ch) ==
  IF \E i \in 1..Len(s) : s[i] = ch
  THEN CHOOSE i \in 1..Len(s) : s[i] = ch /\ \A j \in 1..(i - 1) : s[j] # ch
  ELSE 0

\* A loop body that compares the Upgrade value as it was sent
HeaderLine_Exact(line, st) ==
  Only({IF colonPos = 0 THEN st
        ELSE Only({IF kv.key = ToLower(KeyName)
                   THEN [st EXCEPT !.secKey = kv.value]
                   ELSE IF kv.key = ToLower(UpgradeName) /\ kv.value = WebsocketText
                   THEN [st EXCEPT !.isWebSocket = TRUE]
                   ELSE st :
                   kv \in {[key |-> ToLower(Trim(SubSeq(line, 1, colonPos - 1))),
                            value |-> Trim(SubSeq(line, colonPos + 1, Len(line)))]}}) :
        colonPos \in {Find(line, ":")}})

\* The body of the getline loop for one line that is not empty
HeaderLine(line, st) ==
  \* colonPos as an index from 1; 0 is npos
  Only({IF colonPos = 0 THEN st
        ELSE Only({IF kv.key = ToLower(KeyName)
                   THEN [st EXCEPT !.secKey = kv.value]
                   ELSE IF kv.key = ToLower(UpgradeName)
                           /\ ToLower(kv.value) = WebsocketText
                   THEN [st EXCEPT !.isWebSocket = TRUE]
                   ELSE st :
                   kv \in {[key |-> ToLower(Trim(SubSeq(line, 1, colonPos - 1))),
                            value |-> Trim(SubSeq(line, colonPos + 1, Len(line)))]}}) :
        colonPos \in {Find(line, ":")}})

\* PerformServerHandshake, the loop over std::getline(iss, line): the line up
\* to the next '\n' (or to the end), without its '\r'; an empty line ends the loop
RECURSIVE HeaderLoop(_, _)
HeaderLoop(text, st) ==
  IF text = <<>> THEN st
  ELSE Only({
    Only({IF line = <<>> THEN st
          ELSE HeaderLoop(SubSeq(text, (IF nl = 0 THEN Len(text) ELSE nl) + 1, Len(text)),
                          HeaderLine(line, st)) :
          line \in {IF raw # <<>> /\ raw[Len(raw)] = CR
                    THEN SubSeq(raw, 1, Len(raw) - 1) ELSE raw :
                    raw \in {SubSeq(text, 1, IF nl = 0 THEN Len(text) ELSE nl - 1)}}}) :
    nl \in {Find(text, LF)}})

\* PerformServerHandshake after RecvUntil returned request: [ok, sent]; alive
\* says whether SendAll succeeds
PerformServerHandshake(request, alive) ==
  Only({IF ~st.isWebSocket \/ st.secKey = <<>>
        THEN [ok |-> FALSE, sent |-> <<>>, secKey |-> st.secKey]
        ELSE [ok |-> alive, sent |-> <<CtlMsg("Http101", alive)>>, secKey |-> st.secKey] :
        st \in {HeaderLoop(request, [secKey |-> <<>>, isWebSocket |-> FALSE])}})

\* Header lines a client may send: name, what separates it from the value, value
Header(name, sep, value) == [name |-> name, sep |-> sep, value |-> value]
HeaderLines ==
  {Header(UpgradeName, <<":", " ">>, WebsocketText),
   Header(ToLower(UpgradeName), <<":">>, <<"W","e","b","S","o","c","k","e","t">>),
   Header(<<"U","P","G","R","A","D","E">>, <<" ", ":", " ">>, WebsocketText \o <<" ">>),
   Header(UpgradeName, <<":", " ">>, <<"h","2","c">>),
   Header(UpgradeName, <<":">>, <<>>),
   Header(KeyName, <<":", " ">>, <<"d","G","h","l">>),
   Header(ToLower(KeyName), <<":">>, <<"a","=","=">>),
   Header(KeyName, <<":">>, <<>>),
   Header(KeyName, <<":", " ">>, <<" ", "\t">>),
   Header(<<"H","o","s","t">>, <<":", " ">>, <<"a",":","8","0">>),
   Header(<<"C","o","n","n","e","c","t","i","o","n">>, <<":", " ">>, UpgradeName),
   Header(<<"j","u","n","k">>, <<>>, <<>>)}
MaxHeaderLines == 3
HeaderBlocks == UNION {[1..n -> HeaderLines] : n \in 0..MaxHeaderLines}

\* What follows the blank line in the same string: nothing, or bytes that look
\* like qualifying headers
AfterBlank ==
  {<<>>,
   UpgradeName \o <<":">> \o WebsocketText \o <<CR, LF>> \o KeyName \o <<":", "k">>
   \o <<CR, LF, CR, LF>>}

\* The characters of a request: every line ends in eol, the last one and the
\* blank line in "\r\n"
RECURSIVE RenderLines(_, _)
RenderLines(lines, eol) ==
  IF lines = <<>> THEN <<>>
  ELSE Head(lines).name \o Head(lines).sep \o Head(lines).value
       \o (IF Len(lines) = 1 THEN <<CR, LF>> ELSE eol) \o RenderLines(Tail(lines), eol)
Render(req) ==
  RequestLine \o (IF req.lines = <<>> THEN <<CR, LF>> ELSE req.eol)
  \o RenderLines(req.lines, req.eol) \o <<CR, LF>> \o req.tail

UpgradeRequests ==
  {[lines |-> b, eol |-> e, tail |-> t] :
     b \in HeaderBlocks, e \in {<<CR, LF>>, <<LF>>}, t \in AfterBlank}

InitUpgrade ==
  /\ InitServer
  /\ vReq \in UpgradeRequests
  /\ vRes = [stage |-> "request"]

\* HandleClient: PerformServerHandshake(client), RecvUntil having returned the
\* request
UpgradeHandshake ==
  /\ vRes.stage = "request"
  /\ \E alive \in BOOLEAN :
       \E r \in {PerformServerHandshake(Render(vReq), alive)} :
         vRes' = [stage |-> "handshake", ok |-> r.ok, sent |-> r.sent, secKey |-> r.secKey,
                  alive |-> alive]
  /\ UNCHANGED <<poolVars, connVars, vReq>>

\* HandleClient: if (!PerformServerHandshake(client)) return
UpgradeReturn ==
  /\ vRes.stage = "handshake"
  /\ ~vRes.ok
  /\ vRes' = [vRes EXCEPT !.stage = "returned"]
  /\ UNCHANGED <<poolVars, connVars, vReq>>

\* HandleClient: the handshake succeeded, on to the loop with no session bound
UpgradeLoop ==
  /\ vRes.stage = "handshake"
  /\ vRes.ok
  /\ vRes' = [vRes EXCEPT !.stage = "loop"]
  /\ UNCHANGED <<poolVars, connVars, vReq>>

NextUpgrade == UpgradeHandshake \/ UpgradeReturn \/ UpgradeLoop

SpecUpgrade == InitUpgrade /\ [][NextUpgrade]_vars

(***************************************************************************)
(* SessionPool::Acquire and Release, and the PushAudio calls between them,  *)
(* at the grain of the two kinds of mutex: the pool's _mutex (its holder    *)
(* is vRes.poolMutex) and each session's _mutex (sess[s].mutex).  A worker  *)
(* waits at a lock_guard until the mutex is free.  The bodies of            *)
(* ResetForReuse (which waits for the CUDA stream) and of PushAudio (which  *)
(* sends on the socket and synchronizes the stream) take as long as engine  *)
(* and peer make them: a worker may stay in them forever.  watch[c] says    *)
(* that the other worker has been inside one such body ever since c         *)
(* entered its pool call; overtook, that a pool call completed so.          *)
(***************************************************************************)
\* pc of a worker that waits for the pool mutex, and of one inside its scope
PoolWaits == {"acq_lock", "back_lock", "rel_lock"}
PoolBodies == {"acq_pop", "back_push", "rel_push"}
\* pc of a worker that waits for a session mutex, and of one inside a method
SessionWaits == {"reset_lock", "start_lock", "push_lock", "stop_lock"}
SessionBodies == {"reset_body", "start_body", "push_body", "stop_body"}
\* The bodies that wait for the engine or the peer
StallBodies == {"reset_body", "push_body"}
InPoolCall(c) == pc[c] \notin {"idle", "bound"} /\ pc[c] \notin {"push_lock", "push_body"}

InitPoolLocks ==
  /\ InitPool(PairSessions)
  /\ pc = [c \in Conns |-> "idle"]
  /\ sessionIndex = [c \in Conns |-> None]
  /\ idx = [c \in Conns |-> None]
  /\ after = [c \in Conns |-> "none"]
  /\ cur = [c \in Conns |-> NoFrame]
  /\ reply = [c \in Conns |-> <<>>]
  /\ sockOk = [c \in Conns |-> TRUE]
  /\ wire = [c \in Conns |-> WireInit]
  /\ crashed = FALSE
  /\ vReq = NoHints
  /\ vRes = [poolMutex |-> None, watch |-> [c \in Conns |-> FALSE], overtook |-> FALSE]

\* A block whose lock_guard outlives it
ScopeEnd_Late(holder) == holder

\* The end of the block or function that holds the lock_guard on the pool's
\* _mutex: the mutex is free
ScopeEnd(holder) == None

\* The session worker c's pool or session call is about
Target(c) == IF idx[c] # None THEN idx[c] ELSE sessionIndex[c]

\* Worker c enters a pool call
Enters(c) ==
  [vRes EXCEPT !.watch[c] = \E d \in Conns \ {c} : pc[d] \in StallBodies]
\* Worker c leaves a body that waits: no one has been overtaking it any longer
Leaves(c, w) == [d \in Conns |-> IF d = c THEN w[d] ELSE FALSE]
\* Worker c's pool call returns
Returns(c) ==
  [vRes EXCEPT !.watch[c] = FALSE, !.overtook = vRes.overtook \/ vRes.watch[c],
               !.poolMutex = ScopeEnd(c)]

PoolUnchanged == UNCHANGED <<after, cur, reply, sockOk, wire, crashed, vReq>>

\* HandleClient, StartSession: pool.Acquire(&client)
LkAcquire(c) ==
  /\ pc[c] = "idle"
  /\ pc' = [pc EXCEPT ![c] = "acq_lock"]
  /\ vRes' = Enters(c)
  /\ UNCHANGED <<poolVars, sessionIndex, idx>>
  /\ PoolUnchanged

\* std::lock_guard<std::mutex> lock(_mutex) of the pool, once the mutex is free
LkPoolLock(c) ==
  /\ pc[c] \in PoolWaits
  /\ vRes.poolMutex = None
  /\ vRes' = [vRes EXCEPT !.poolMutex = c]
  /\ pc' = [pc EXCEPT ![c] = CASE pc[c] = "acq_lock" -> "acq_pop"
                                [] pc[c] = "back_lock" -> "back_push"
                                [] OTHER -> "rel_push"]
  /\ UNCHANGED <<poolVars, sessionIndex, idx>>
  /\ PoolUnchanged

\* Acquire, the locked block: return nullopt on an empty stack, else pop the back
LkPop(c) ==
  /\ pc[c] = "acq_pop"
  /\ IF freeIndices = <<>>
     THEN /\ pc' = [pc EXCEPT ![c] = "idle"]
          /\ vRes' = Returns(c)
          /\ UNCHANGED <<freeIndices, idx>>
     ELSE /\ idx' = [idx EXCEPT ![c] = freeIndices[Len(freeIndices)]]
          /\ freeIndices' = PopFree(freeIndices)
          /\ vRes' = [vRes EXCEPT !.poolMutex = ScopeEnd(c)]
          /\ pc' = [pc EXCEPT ![c] = "reset_lock"]
  /\ UNCHANGED <<sess, sessionIndex>>
  /\ PoolUnchanged

\* std::lock_guard<std::mutex> lock(_mutex) of a session, once the mutex is free
LkSessionLock(c) ==
  /\ pc[c] \in SessionWaits
  /\ sess[Target(c)].mutex = None
  /\ sess' = [sess EXCEPT ![Target(c)] = LockGuard(sess[Target(c)], c)]
  /\ pc' = [pc EXCEPT ![c] = CASE pc[c] = "reset_lock" -> "reset_body"
                                [] pc[c] = "start_lock" -> "start_body"
                                [] pc[c] = "push_lock" -> "push_body"
                                [] OTHER -> "stop_body"]
  /\ UNCHANGED <<freeIndices, sessionIndex, idx, valVars>>
  /\ PoolUnchanged

\* ResetForReuse returns, with or without success
LkResetBody(c) ==
  /\ pc[c] = "reset_body"
  /\ \E fault \in {"none", "executorReset"} :
       \E r \in {ResetForReuse(sess[idx[c]], fault)} :
         /\ sess' = [sess EXCEPT ![idx[c]] = Unlock(r.s)]
         /\ pc' = [pc EXCEPT ![c] = IF r.ok THEN "start_lock" ELSE "back_lock"]
  /\ vRes' = [vRes EXCEPT !.watch = Leaves(c, vRes.watch)]
  /\ UNCHANGED <<freeIndices, sessionIndex, idx>>
  /\ PoolUnchanged

\* Acquire after a failed reset: push the index back, return nullopt
LkPushBack(c) ==
  /\ pc[c] = "back_push"
  /\ freeIndices' = Reinstate(freeIndices, idx[c])
  /\ idx' = [idx EXCEPT ![c] = None]
  /\ pc' = [pc EXCEPT ![c] = "idle"]
  /\ vRes' = Returns(c)
  /\ UNCHANGED <<sess, sessionIndex>>
  /\ PoolUnchanged

\* Start returns, Acquire returns idx, HandleClient binds it
LkStartBody(c) ==
  /\ pc[c] = "start_body"
  /\ sess' = [sess EXCEPT ![idx[c]] = Unlock(Start(sess[idx[c]], c, "id-a"))]
  /\ sessionIndex' = [sessionIndex EXCEPT ![c] = idx[c]]
  /\ idx' = [idx EXCEPT ![c] = None]
  /\ pc' = [pc EXCEPT ![c] = "bound"]
  /\ vRes' = Returns(c)
  /\ UNCHANGED freeIndices
  /\ PoolUnchanged

\* HandleClient, a Binary message: pool.Get(*sessionIndex).PushAudio(...)
LkPushAudio(c) ==
  /\ pc[c] = "bound"
  /\ pc' = [pc EXCEPT ![c] = "push_lock"]
  /\ UNCHANGED <<poolVars, sessionIndex, idx, valVars>>
  /\ PoolUnchanged

\* PushAudio returns; what it did to the session's fields is not followed here
LkPushBody(c) ==
  /\ pc[c] = "push_body"
  /\ sess' = [sess EXCEPT ![sessionIndex[c]] = Unlock(sess[sessionIndex[c]])]
  /\ pc' = [pc EXCEPT ![c] = "bound"]
  /\ vRes' = [vRes EXCEPT !.watch = Leaves(c, vRes.watch)]
  /\ UNCHANGED <<freeIndices, sessionIndex, idx>>
  /\ PoolUnchanged

\* HandleClient, EndSession or the end of the loop: pool.Release(*sessionIndex)
LkRelease(c) ==
  /\ pc[c] = "bound"
  /\ pc' = [pc EXCEPT ![c] = "stop_lock"]
  /\ vRes' = Enters(c)
  /\ UNCHANGED <<poolVars, sessionIndex, idx>>
  /\ PoolUnchanged

\* Stop returns
LkStopBody(c) ==
  /\ pc[c] = "stop_body"
  /\ sess' = [sess EXCEPT ![sessionIndex[c]] = Unlock(Stop(sess[sessionIndex[c]]))]
  /\ pc' = [pc EXCEPT ![c] = "rel_lock"]
  /\ UNCHANGED <<freeIndices, sessionIndex, idx, valVars>>
  /\ PoolUnchanged

\* Release: push the index, return; HandleClient resets sessionIndex
LkPushFree(c) ==
  /\ pc[c] = "rel_push"
  /\ freeIndices' = PushFree(freeIndices, sessionIndex[c])
  /\ sessionIndex' = [sessionIndex EXCEPT ![c] = None]
  /\ pc' = [pc EXCEPT ![c] = "idle"]
  /\ vRes' = Returns(c)
  /\ UNCHANGED <<sess, idx>>
  /\ PoolUnchanged

\* The steps of a worker that wait for nothing but a mutex
LkRuns(c) ==
  \/ LkPoolLock(c)
  \/ LkPop(c)
  \/ LkSessionLock(c)
  \/ LkPushBack(c)
  \/ LkStartBody(c)
  \/ LkStopBody(c)
  \/ LkPushFree(c)

\* The steps that the client, the engine or the peer decide on
LkWaits(c) ==
  \/ LkAcquire(c)
  \/ LkResetBody(c)
  \/ LkPushAudio(c)
  \/ LkPushBody(c)
  \/ LkRelease(c)

NextPoolLocks == \E c \in Conns : LkRuns(c) \/ LkWaits(c)

\* A worker that waits for nothing but a mutex keeps running, and one that
\* waits for the pool mutex gets it if it is free again and again; a reset of
\* the second worker's returns; the first worker may stay in ResetForReuse or
\* PushAudio forever
SpecPoolLocks ==
  /\ InitPoolLocks
  /\ [][NextPoolLocks]_vars
  /\ \A c \in Conns : WF_vars(LkRuns(c)) /\ SF_vars(LkPoolLock(c))
  /\ WF_vars(LkResetBody(2))

(***************************************************************************)
(* Properties.                                                              *)
(***************************************************************************)
\* The worker is inside SessionPool::Acquire, past the pop
InAcquire(c) == pc[c] \in {"acq_reset", "acq_start", "acq_pushback"}

\* The worker is inside SessionPool::Release, before the push
InRelease(c) == pc[c] \in {"rel_stop", "rel_push"}

\* Connection c holds session index i: bound to it, or popped and not yet pushed back
Holds(c, i) ==
  \/ sessionIndex[c] = i
  \/ idx[c] = i /\ (InAcquire(c) \/ InRelease(c))

Holders(i) == {c \in Conns : Holds(c, i)}

\* pool.attached(): sessions whose socket pointer is non-null
Attached == Cardinality({s \in Sessions : sess[s].wsSocket # None})

\* Sessions that are neither on the free stack nor attached: popped by an Acquire that
\* has not reached Start or the push-back, or stopped by a Release that has not pushed
InTransit ==
  Cardinality({c \in Conns : pc[c] \in {"acq_reset", "acq_start", "acq_pushback", "rel_push"}})

HasMsg(log, op, type) == \E k \in 1..Len(log) : log[k].op = op /\ log[k].type = type

\* The index c's last Release worked on is back: on the free stack, or held by another
\* connection that popped it since
Returned(c) ==
  /\ ~Holds(c, idx[c])
  /\ \/ idx[c] \in Range(freeIndices)
     \/ \E d \in Conns \ {c} : Holds(d, idx[c])

\* C1: under any interleaving of the workers' Acquire and Release steps, no session
\* index is held by two connections at once, and no index a connection holds is on
\* the free-index stack.
C1_ExclusiveHolder ==
  \A i \in Sessions :
    /\ Cardinality(Holders(i)) <= 1
    /\ Holders(i) # {} => i \notin Range(freeIndices)

\* One connection holds the session that another connection held and ended before
C1_Witness ==
  \E c, d \in Conns :
    /\ c # d
    /\ sessionIndex[c] \in Sessions
    /\ wire[d].phase = "ended"
    /\ pc[d] = "handled" /\ after[d] = "busy"

\* C2 (as stated): in every reachable state, the states between the steps of Acquire
\* and Release included, free-stack size plus attached sessions equals maxSessions.
C2_AsStated == Len(freeIndices) + Attached = MaxSessions

\* C2 (amended): free-stack size plus attached sessions plus the sessions in transit
\* (popped but not yet started or pushed back, or stopped but not yet pushed) equals
\* maxSessions; so the sum of the first two never exceeds maxSessions and equals it
\* whenever no Acquire or Release is between those steps.
C2_Conservation ==
  /\ Len(freeIndices) + Attached + InTransit = MaxSessions
  /\ Len(freeIndices) + Attached <= MaxSessions
  /\ (\A c \in Conns : ~InAcquire(c) /\ pc[c] # "rel_push")
       => Len(freeIndices) + Attached = MaxSessions

\* A Release is between Stop and push while another connection waits in its loop
C2_Witness ==
  \E c, d \in Conns :
    /\ c # d
    /\ pc[c] = "rel_push"
    /\ pc[d] = "loop"
    /\ Len(freeIndices) + Attached < MaxSessions

\* C3: on every connection and for every attachment, over any sequence of PushAudio
\* calls, the binary frames delivered carry strictly increasing frameIndex values and
\* the first one after the acquisition carries 0.
C3_FrameIndexIncreasing == \A c \in Conns : wire[c].inOrder

\* Two PushAudio calls of one attachment, the second delivering frames after several
\* flushes of the first
C3_Witness ==
  \E c \in Conns :
    /\ cur[c].kind = "PushAudio"
    /\ wire[c].nPush = 2
    /\ HasMsg(reply[c], "Binary", "Frame")
    /\ reply[c][Len(reply[c])].ok
    /\ wire[c].lastBin > 2 * kFlushThresholdFrames

\* C4: for each attachment exactly one SessionStarted is sent, before any binary frame
\* of the attachment, and no binary frame is sent after SessionEnded until a later
\* SessionStarted.
C4_StartedBeforeFrames ==
  \A c \in Conns :
    /\ wire[c].nStarted <= 1
    /\ (sessionIndex[c] # None /\ pc[c] \in {"loop", "handled"}) => wire[c].nStarted = 1
    /\ HasMsg(reply[c], "Binary", "Frame")
         => wire[c].phase = "started" /\ wire[c].nStarted = 1

\* Frames flow on a connection's second attachment
C4_Witness ==
  \E c \in Conns :
    /\ HasMsg(reply[c], "Binary", "Frame")
    /\ reply[c][1].ok
    /\ wire[c].phase = "started"
    /\ \E d \in Conns \ {c} : wire[d].phase = "ended"

PoolExhausted == \A i \in Sessions : Holders(i) # {}

\* C6: a StartSession that arrives while every session is held gets exactly one Error
\* "Server busy (no free sessions)" and no SessionStarted; the connection stays unbound
\* and open; the free stack and all sessions are unchanged.
C6_ServerBusy ==
  [][\A c \in Conns :
       (/\ PoolExhausted
        /\ pc[c] = "loop" /\ sessionIndex[c] = None
        /\ pc'[c] # "loop" /\ cur'[c].kind = "StartSession")
       => /\ reply'[c] = <<TextMsg("Error", "Server busy (no free sessions)", sockOk[c])>>
          /\ pc'[c] = "handled"
          /\ sessionIndex'[c] = None
          /\ sockOk'[c] = sockOk[c]
          /\ freeIndices' = freeIndices
          /\ sess' = sess]_vars

\* A StartSession was answered busy while another connection is bound to the session
C6_Witness ==
  \E c, d \in Conns :
    /\ c # d
    /\ pc[c] = "handled" /\ after[c] = "busy"
    /\ cur[c].kind = "StartSession"
    /\ freeIndices = <<>>
    /\ sessionIndex[d] \in Sessions

C8_ValidationFailureReleases ==
  \A c \in Conns :
    after[c] = "valerr" =>
      /\ sessionIndex[c] = None
      /\ wire[c].nStarted = 0
      /\ pc[c] \in {"rel_stop", "rel_push", "rel_reply", "handled"}
      /\ pc[c] # "handled" => reply[c] = <<>>
      /\ pc[c] = "handled" =>
           /\ Len(reply[c]) = 1
           /\ reply[c][1].op = "Text" /\ reply[c][1].type = "Error"
           /\ reply[c][1].text
                = ValidateStartSessionRequest(cur[c].req, DescribeSessionStarted).err
           /\ Returned(c)
           /\ sess[idx[c]].wsSocket # c

\* A request with a mismatching fps was refused and its session is free again
C8_Witness ==
  \E c \in Conns :
    /\ pc[c] = "handled" /\ after[c] = "valerr"
    /\ cur[c].req = Fps30
    /\ idx[c] \in Range(freeIndices)
    /\ Len(reply[c]) = 1

\* What the hints of a request demand
RateMatches(v) ==
  LET p == TryParseFrameRate(v)
  IN  p.ok /\ p.num = FpsNumerator /\ p.den = FpsDenominator

ModelHintMatches(r) ==
  Contains(r.model) =>
    r.model.t = "str" /\ CanonicalizePath(r.model.v) = CanonicalizePath(ServerModel)

FpsHintMatches(r) == Contains(r.fps) => RateMatches(r.fps)

FrameRateHintMatches(r) == Contains(r.frame_rate) => RateMatches(r.frame_rate)

GpuSolverHintMatches(r) ==
  (Contains(r.options) /\ r.options.t = "obj" /\ Contains(r.options.v.use_gpu_solver))
    => /\ r.options.v.use_gpu_solver.t = "bool"
       /\ r.options.v.use_gpu_solver.v = ServerUseGpuSolver

ExecutionOptionHintMatches(r) ==
  (Contains(r.options) /\ r.options.t = "obj" /\ Contains(r.options.v.execution_option))
    => /\ r.options.v.execution_option.t = "str"
       /\ CanonicalizeExecutionOption(r.options.v.execution_option.v)
            = CanonicalizeExecutionOption(ServerExecutionOption)

\* C9: StartSession is accepted only if every hint the request specifies (model, fps,
\* frame_rate, options.use_gpu_solver, options.execution_option) matches the server's
\* advertised configuration after canonicalisation.
C9_AcceptedOnlyIfEveryHintMatches ==
  (vRes # NotValidated /\ vRes.ok) =>
    /\ ModelHintMatches(vReq)
    /\ FpsHintMatches(vReq)
    /\ FrameRateHintMatches(vReq)
    /\ GpuSolverHintMatches(vReq)
    /\ ExecutionOptionHintMatches(vReq)

\* C10: when the dispatcher loop ends with a session bound, the session is released
\* exactly once: the release steps can always be taken, and once HandleClient is done
\* the connection holds no session, no session points at its socket, the index is on
\* the free stack (or with another connection), and no index is on the stack twice.
C10_ExitReleasesOnce ==
  /\ \A c \in Conns :
       /\ pc[c] = "rel_stop" => ENABLED ReleaseStop(c)
       /\ pc[c] = "rel_push" => ENABLED ReleasePush(c)
       /\ pc[c] = "done" =>
            /\ \A i \in Sessions : ~Holds(c, i)
            /\ \A s \in Sessions : sess[s].wsSocket # c
            /\ after[c] = "exit" => Returned(c)
  /\ \A j, k \in 1..Len(freeIndices) : j # k => freeIndices[j] # freeIndices[k]

\* The loop ended on a Close frame with a session bound, and the session is free again
C10_Witness ==
  \E c \in Conns :
    /\ pc[c] = "done" /\ after[c] = "exit"
    /\ cur[c].kind = "Close"
    /\ idx[c] \in Range(freeIndices)

\* The SendFrame calls c's worker makes in the step
NewMsgs(c) ==
  IF Len(reply'[c]) > Len(reply[c])
  THEN SubSeq(reply'[c], Len(reply[c]) + 1, Len(reply'[c]))
  ELSE <<>>

\* An EndSession request that names no session, or the one announced
EndsOwnSession(c, frame) ==
  /\ frame.kind = "EndSession"
  /\ \/ frame.session_id = Absent
     \/ frame.session_id = JStr(sess[sessionIndex[c]].sessionId)

\* C11: a handler that sends an Error leaves the connection in its loop and the
\* binding as it was (same index, the session still attached to this socket under the
\* same id); and on a connection that received an Error during the attachment, an
\* EndSession naming no session or the announced one starts the Release of the bound
\* session, which always comes back to the pool and is answered by SessionEnded
\* (as long as the process lives).
C11_ErrorKeepsSession ==
  [][\A c \in Conns :
       ~crashed' =>
       /\ HasMsg(NewMsgs(c), "Text", "Error") =>
            /\ pc'[c] = "handled"
            /\ sessionIndex'[c] = sessionIndex[c]
            /\ sessionIndex[c] # None =>
                 /\ sess'[sessionIndex[c]].wsSocket = c
                 /\ sess'[sessionIndex[c]].sessionId = sess[sessionIndex[c]].sessionId
       /\ ( /\ pc[c] = "loop" /\ sessionIndex[c] # None /\ wire[c].erred
            /\ cur'[c] # cur[c] /\ EndsOwnSession(c, cur'[c]) ) =>
            /\ pc'[c] = "rel_stop" /\ after'[c] = "ended"
            /\ idx'[c] = sessionIndex[c]
            /\ NewMsgs(c) = <<>>
       /\ ( /\ wire[c].erred /\ after[c] = "ended" /\ pc[c] = "rel_reply"
            /\ pc'[c] # pc[c] ) =>
            /\ pc'[c] = "handled"
            /\ sessionIndex'[c] = None
            /\ Returned(c)'
            /\ Len(NewMsgs(c)) = 1
            /\ NewMsgs(c)[1].type = "SessionEnded"
  ]_vars

\* An EndSession after an Error of the same attachment that left frames staged was
\* answered SessionEnded, on a live socket
C11_Witness ==
  /\ pc[1] = "handled" /\ after[1] = "ended"
  /\ wire[1].erred /\ sockOk[1]
  /\ HasMsg(reply[1], "Text", "SessionEnded")
  /\ Returned(1)
  /\ Len(sess[idx[1]].pendingFrames) > 0

\* Text payloads that are no StartSession or EndSession request: rejected by the
\* parser, no object, a "type" that is no string, an unknown or missing "type"
MalformedKinds == {"InvalidJson", "NotAnObject", "TypeNotAString", "UnknownType"}

\* C12: a Text message that is neither a StartSession nor an EndSession request gets
\* exactly one Error message, the worker goes on with its loop, the binding and the
\* pool stay as they were, and the server keeps running.
C12_MalformedTextGetsOneError ==
  [][\A c \in Conns :
       (pc[c] = "loop" /\ cur'[c] # cur[c] /\ cur'[c].kind \in MalformedKinds) =>
         /\ ~crashed'
         /\ pc'[c] = "handled"
         /\ Len(reply'[c]) = 1
         /\ reply'[c][1].op = "Text" /\ reply'[c][1].type = "Error"
         /\ sessionIndex' = sessionIndex
         /\ freeIndices' = freeIndices
  ]_vars

\* C13: the pending-frame queue of a session never holds more than kMaxStagedFrames
\* frames, neither between the handlers' steps nor at any point inside a PushAudio
\* call.
C13_PendingBounded ==
  /\ \A s \in Sessions : Len(sess[s].pendingFrames) <= kMaxStagedFrames
  /\ \A c \in Conns : cur[c].kind = "PushAudio" => cur[c].peak <= kMaxStagedFrames

\* A PushAudio call filled the queue to the limit, the callback refused the next frame
C13_Witness ==
  \E c \in Conns :
    /\ pc[c] = "handled" /\ cur[c].kind = "PushAudio"
    /\ cur[c].peak = kMaxStagedFrames
    /\ Len(sess[sessionIndex[c]].pendingFrames) = kMaxStagedFrames
    /\ \E k \in 1..Len(reply[c]) :
         reply[c][k].text = "Too many pending frames (client too slow?)"

\* The worker is inside PushAudio for a long audio message, in a send that does not
\* complete because the peer, still connected, stopped reading
StalledInLongPush(c) ==
  /\ pc[c] = "blocked" /\ sockOk[c]
  /\ cur[c].kind = "PushAudio" /\ cur[c].size = 8 + 2 * LongSamples

TooManyPendingSent(c) ==
  \E k \in 1..Len(reply[c]) :
    reply[c][k].op = "Text" /\ reply[c][k].type = "Error"
    /\ reply[c][k].text = "Too many pending frames (client too slow?)"

\* C14: once the server's sends for a long audio message can no longer complete
\* because the client stopped reading, the server eventually emits the Error
\* "Too many pending frames (client too slow?)" on that connection (unless the peer
\* disconnects or the process ends first).
C14_StalledReaderGetsError ==
  \A c \in Conns :
    StalledInLongPush(c) ~> (TooManyPendingSent(c) \/ ~sockOk[c] \/ crashed)

\* C15: a StartSession request on a connection that has a bound session is answered
\* by one Error and changes nothing: the bound index, every session's fields (id,
\* pending queue, nextFrameIndex, socket pointer, engine state) and the free stack
\* stay as they were, and the worker goes on with its loop.
C15_SecondStartRejected ==
  [][\A c \in Conns :
       ( /\ pc[c] = "loop" /\ sessionIndex[c] # None
         /\ cur'[c] # cur[c] /\ cur'[c].kind = "StartSession" ) =>
         /\ pc'[c] = "handled"
         /\ Len(reply'[c]) = 1
         /\ reply'[c][1].op = "Text" /\ reply'[c][1].type = "Error"
         /\ reply'[c][1].text = "Session already started for this connection"
         /\ sessionIndex' = sessionIndex
         /\ sess' = sess
         /\ freeIndices' = freeIndices
  ]_vars

\* A StartSession was rejected on a connection whose session had produced frames
C15_Witness ==
  \E c \in Conns :
    /\ pc[c] = "handled" /\ cur[c].kind = "StartSession"
    /\ sessionIndex[c] # None /\ after[c] = "none"
    /\ sess[sessionIndex[c]].wsSocket = c
    /\ sess[sessionIndex[c]].nextFrameIndex > 0
    /\ HasMsg(reply[c], "Text", "Error")

\* The EndSession request names no session, or in a string the one announced by the
\* SessionStarted message of c's current attachment
NamesAnnounced(c, frame) ==
  \/ frame.session_id.t = "absent"
  \/ frame.session_id.t = "str" /\ frame.session_id.v = wire[c].announced

\* C16: an EndSession request starts the Release of the bound session, which ends
\* with the index back in the pool, the binding gone and SessionEnded as the one
\* reply, exactly when a session is bound and the request names no session or the
\* announced one; every other EndSession request gets exactly one Error and leaves
\* binding, sessions and pool as they were.
C16_EndSessionIff ==
  [][\A c \in Conns :
       ~crashed' =>
       /\ ( /\ pc[c] = "loop" /\ cur'[c] # cur[c] /\ cur'[c].kind = "EndSession" ) =>
            IF sessionIndex[c] # None /\ NamesAnnounced(c, cur'[c])
            THEN /\ pc'[c] = "rel_stop" /\ after'[c] = "ended"
                 /\ idx'[c] = sessionIndex[c]
                 /\ reply'[c] = <<>>
            ELSE /\ pc'[c] = "handled"
                 /\ Len(reply'[c]) = 1
                 /\ reply'[c][1].op = "Text" /\ reply'[c][1].type = "Error"
                 /\ sessionIndex' = sessionIndex
                 /\ sess' = sess
                 /\ freeIndices' = freeIndices
       /\ ( /\ pc[c] = "rel_reply" /\ after[c] = "ended" /\ pc'[c] # pc[c] ) =>
            /\ pc'[c] = "handled"
            /\ sessionIndex'[c] = None
            /\ Returned(c)'
            /\ sess'[idx[c]].wsSocket # c
            /\ Len(reply'[c]) = 1
            /\ reply'[c][1].op = "Text" /\ reply'[c][1].type = "SessionEnded"
            /\ reply'[c][1].text = cur[c].sid
       /\ HasMsg(NewMsgs(c), "Text", "SessionEnded") =>
            pc[c] = "rel_reply" /\ after[c] = "ended"
  ]_vars

\* An EndSession naming the announced id was answered by SessionEnded, the session
\* is back in the pool
C16_Witness ==
  /\ pc[1] = "handled" /\ cur[1].kind = "EndSession" /\ after[1] = "ended"
  /\ cur[1].session_id.t = "str" /\ cur[1].session_id.v = cur[1].sid
  /\ HasMsg(reply[1], "Text", "SessionEnded")
  /\ sessionIndex[1] = None /\ Returned(1)

\* Acquire returned to c's worker, which has made no further call on the session
AcquireReturned(c) ==
  \/ pc[c] = "handled" /\ after[c] = "started"
  \/ pc[c] = "rel_stop" /\ after[c] = "valerr"

\* C17: when Acquire has returned a session, its pending queue is empty, its
\* nextFrameIndex is 0 and its audio accumulator holds no samples, whatever the
\* session held when it was popped; and at any time the frames staged in a session
\* are the last ones produced since its last acquisition, numbered up to
\* nextFrameIndex - 1, so none of them dates from an earlier attachment.
C17_FreshAfterAcquire ==
  /\ \A c \in Conns :
       AcquireReturned(c) =>
         /\ sess[idx[c]].pendingFrames = <<>>
         /\ sess[idx[c]].nextFrameIndex = 0
         /\ sess[idx[c]].eng.accumulated = 0
         /\ sess[idx[c]].wsSocket = c
  /\ \A s \in Sessions :
       LET q == sess[s].pendingFrames
       IN  \A i \in 1..Len(q) :
             q[i].frameIndex = sess[s].nextFrameIndex - Len(q) + i - 1

\* Acquire returned a session that had frames staged or samples accumulated when it
\* was popped, and SessionStarted went out
C17_Witness ==
  \E c \in Conns :
    /\ pc[c] = "handled" /\ after[c] = "started"
    /\ wire[c].reused
    /\ sessionIndex[c] = idx[c]
    /\ sess[idx[c]].pendingFrames = <<>>
    /\ HasMsg(reply[c], "Text", "SessionStarted")

\* The step is one of c's worker (or the peer of c going away)
Acted(c) == pc'[c] # pc[c] \/ sockOk'[c] # sockOk[c]

\* Sessions c holds after the step or held before it
Own(c) == {s \in Sessions : Holds(c, s) \/ Holds(c, s)'}

\* C18: a step of one connection's worker changes, besides the free stack, only the
\* session that connection holds: every other session keeps its pending queue,
\* nextFrameIndex, accumulator, socket pointer and session id, every other
\* connection keeps its binding, and no message goes out on another connection;
\* and a session's socket pointer is at all times null or the socket of the
\* connection that holds it, so that its frames go to that connection only.
C18_Isolation ==
  [][\A c \in Conns :
       (Acted(c) /\ ~crashed') =>
         /\ \A s \in Sessions \ Own(c) : sess'[s] = sess[s]
         /\ \A d \in Conns \ {c} :
              /\ sessionIndex'[d] = sessionIndex[d]
              /\ reply'[d] = reply[d]
              /\ wire'[d] = wire[d]
              /\ sockOk'[d] = sockOk[d]
         /\ \A s \in Sessions, d \in Conns :
              sess'[s].wsSocket = d => Holds(d, s)'
         /\ \A s \in Sessions :
              Holds(c, s)' /\ pc'[c] \in {"handled", "blocked", "loop"}
                => sess'[s].wsSocket = c
  ]_vars

\* Both connections have a session that produced frames, and one of them has just
\* pushed audio
C18_Witness ==
  /\ sessionIndex[1] # None /\ sessionIndex[2] # None
  /\ sessionIndex[1] # sessionIndex[2]
  /\ sess[sessionIndex[1]].nextFrameIndex > 0
  /\ sess[sessionIndex[2]].nextFrameIndex > 0
  /\ pc[1] = "handled" /\ cur[1].kind = "PushAudio"
  /\ pc[2] = "loop"

C20_CodecRoundTrip ==
  (vRes.stage = "read" /\ vRes.cap >= Len(vReq.payload)) =>
    /\ vRes.frame.ok
    /\ vRes.frame.fin
    /\ vRes.frame.opcode = vReq.opcode
    /\ vRes.frame.payload = vReq.payload
    /\ vRes.frame.rest = vReq.tail

\* A Binary frame of 126 bytes (the shortest with a 16-bit length), followed by more
\* bytes, was read back
C20_Witness ==
  /\ vRes.stage = "read" /\ vRes.cap >= Len(vReq.payload)
  /\ vReq.opcode = OpBinary /\ Len(vReq.payload) = 126
  /\ vReq.tail # <<>>
  /\ vRes.frame.ok /\ Len(vRes.frame.payload) = 126
  /\ vRes.frame.rest = vReq.tail

\* C21: ReadFrame accepts a final frame whose body arrives and whose declared length
\* equals the cap, handing over the body the peer sent; it returns false for every
\* frame that declares more than the cap, having then taken off the stream only the
\* two header bytes and the extended length (no mask key, no body byte) and not
\* having resized the payload buffer.
C21_CapBoundary ==
  (vRes.stage = "limit" /\ vReq.fin) =>
    /\ (vReq.declared = vReq.cap /\ vReq.body = "whole") =>
         /\ vRes.ok
         /\ vRes.size = vReq.cap
         /\ vRes.intact
         /\ vRes.rest = PeerTail
    /\ (vReq.declared = TooLong \/ vReq.declared > vReq.cap) =>
         /\ ~vRes.ok
         /\ vRes.read = 1 + Len(vReq.lenBytes)
         /\ ~vRes.resized

\* A masked frame of 4 MiB + 1 bytes, body on the stream, was turned away under the
\* dispatcher's cap after ten bytes
C21_Witness ==
  /\ vRes.stage = "limit"
  /\ vReq.fin /\ vReq.masked /\ vReq.body = "whole"
  /\ vReq.cap = kMaxPayload /\ vReq.declared = kMaxPayload + 1
  /\ ~vRes.ok /\ vRes.read = 10

\* The frame the peer wrote and c's worker read in its last pass through the loop
\* had fin clear
ReadFragment(c) ==
  /\ cur[c].kind \in {"ReadFail", "Other"}
  /\ "frame" \in DOMAIN cur[c]
  /\ ~cur[c].frame.fin

\* C22: whatever its opcode, declared length, mask bit and body, a frame with fin
\* clear makes ReadFrame return false after the two header bytes; the dispatcher
\* then leaves the loop in the same step: it sends nothing, calls no session method
\* for the frame, and goes on to release the bound session if it has one (and is done
\* if it has none); once it is done, the session it held is free again.
C22_FragmentLeavesLoop ==
  [][\A c \in Conns :
       /\ (pc[c] = "loop" /\ ReadFragment(c)') =>
            /\ cur'[c].kind = "ReadFail"
            /\ cur'[c].read = 2
            /\ reply'[c] = <<>>
            /\ sess' = sess /\ freeIndices' = freeIndices /\ sessionIndex' = sessionIndex
            /\ IF sessionIndex[c] # None
               THEN pc'[c] = "rel_stop" /\ idx'[c] = sessionIndex[c] /\ after'[c] = "exit"
               ELSE pc'[c] = "done"
       /\ (ReadFragment(c)' /\ pc'[c] = "done") =>
            /\ \A i \in Sessions : ~Holds(c, i)' /\ sess'[i].wsSocket # c
            /\ after'[c] = "exit" => idx'[c] \in Range(freeIndices')
    ]_vars

\* A Binary frame declaring 126 bytes with fin clear ended the loop of a connection
\* that held a session, and the session is free again
C22_Witness ==
  /\ ReadFragment(1)
  /\ cur[1].frame.opcode = OpBinary /\ cur[1].frame.declared = 126
  /\ pc[1] = "done" /\ after[1] = "exit"
  /\ idx[1] \in Range(freeIndices)

(***************************************************************************)
(* SHA-1 as FIPS 180-4 defines it and Base64 as RFC 4648 defines it, on     *)
(* sequences of bits (most significant bit first).                          *)
(***************************************************************************)
RefHexDigits == <<"0","1","2","3","4","5","6","7","8","9","a","b","c","d","e","f">>
RefZero(width) == SubSeq([i \in 1..width |-> 0], 1, width)
RefBitsOf(n, width) ==
  SubSeq([i \in 1..width |-> (n \div Pow2(width - i)) % 2], 1, width)
RefHex(digits) ==
  SubSeq([i \in 1..(4 * Len(digits)) |->
            RefBitsOf((CHOOSE k \in 1..16 :
                         RefHexDigits[k] = digits[((i - 1) \div 4) + 1]) - 1,
                      4)[((i - 1) % 4) + 1]], 1, 4 * Len(digits))
RefBits(bytes) ==
  SubSeq([i \in 1..(8 * Len(bytes)) |->
            RefBitsOf(bytes[((i - 1) \div 8) + 1], 8)[((i - 1) % 8) + 1]],
         1, 8 * Len(bytes))
RefValue(bits) ==
  LET v[i \in 0..Len(bits)] == IF i = 0 THEN 0 ELSE 2 * v[i - 1] + bits[i]
  IN  v[Len(bits)]

\* x + y mod 2^32 with a ripple carry
RefAdd(x, y) ==
  LET carry[i \in 1..33] ==
        IF i = 33 THEN 0
        ELSE IF x[i] + y[i] + carry[i + 1] >= 2 THEN 1 ELSE 0
  IN  SubSeq([i \in 1..32 |-> (x[i] + y[i] + carry[i + 1]) % 2], 1, 32)
RefRotl(x, n) == SubSeq(x, n + 1, 32) \o SubSeq(x, 1, n)
RefCh(x, y, z) == SubSeq([i \in 1..32 |-> IF x[i] = 1 THEN y[i] ELSE z[i]], 1, 32)
RefParity(x, y, z) == SubSeq([i \in 1..32 |-> (x[i] + y[i] + z[i]) % 2], 1, 32)
RefMaj(x, y, z) ==
  SubSeq([i \in 1..32 |-> IF x[i] + y[i] + z[i] >= 2 THEN 1 ELSE 0], 1, 32)

RefF(t, x, y, z) ==
  IF t <= 19 THEN RefCh(x, y, z)
  ELSE IF t <= 39 THEN RefParity(x, y, z)
  ELSE IF t <= 59 THEN RefMaj(x, y, z)
  ELSE RefParity(x, y, z)
RefK(t) ==
  IF t <= 19 THEN RefHex(<<"5","a","8","2","7","9","9","9">>)
  ELSE IF t <= 39 THEN RefHex(<<"6","e","d","9","e","b","a","1">>)
  ELSE IF t <= 59 THEN RefHex(<<"8","f","1","b","b","c","d","c">>)
  ELSE RefHex(<<"c","a","6","2","c","1","d","6">>)
RefH0 ==
  <<RefHex(<<"6","7","4","5","2","3","0","1">>), RefHex(<<"e","f","c","d","a","b","8","9">>),
    RefHex(<<"9","8","b","a","d","c","f","e">>), RefHex(<<"1","0","3","2","5","4","7","6">>),
    RefHex(<<"c","3","d","2","e","1","f","0">>)>>

\* The message, a 1 bit, zero bits up to 448 mod 512, the length in 64 bits
RefPad(bits) ==
  LET l == Len(bits)
      k == CHOOSE z \in 0..511 : (l + 1 + z) % 512 = 448
  IN  bits \o <<1>> \o [i \in 1..k |-> 0] \o RefZero(33) \o RefBitsOf(l, 31)

\* The message schedule W_0 .. W_(n-1), each word from the words before it
RefNextW(w) ==
  LET t == Len(w)
  IN  RefRotl(RefParity(RefParity(w[t - 2], w[t - 7], w[t - 13]), w[t - 15],
                        RefZero(32)), 1)
RECURSIVE RefW(_, _)
RefW(w, n) ==
  IF n = Len(w) THEN w
  ELSE IF n = Len(w) + 1 THEN Append(w, RefNextW(w))
  ELSE Only({RefW(x, n) : x \in {RefW(w, (Len(w) + n) \div 2)}})

\* Round t on the working variables <<a, b, c, d, e>>, and rounds lo .. hi - 1
RefStep(v, w, t) ==
  <<RefAdd(RefAdd(RefAdd(RefAdd(RefRotl(v[1], 5), RefF(t, v[2], v[3], v[4])), v[5]),
                  RefK(t)), w[t + 1]),
    v[1], RefRotl(v[2], 30), v[3], v[4]>>
RECURSIVE RefRounds(_, _, _, _)
RefRounds(v, w, lo, hi) ==
  IF hi = lo + 1 THEN RefStep(v, w, lo)
  ELSE Only({RefRounds(x, w, (lo + hi) \div 2, hi) :
               x \in {RefRounds(v, w, lo, (lo + hi) \div 2)}})

\* The hash value after the first n blocks
RECURSIVE RefHash(_, _)
RefHash(padded, n) ==
  IF n = 0 THEN RefH0
  ELSE Only({Only({SubSeq([j \in 1..5 |-> RefAdd(h[j], v[j])], 1, 5) :
                      v \in {RefRounds(h, w, 0, 80)}}) :
               h \in {RefHash(padded, n - 1)},
               w \in {RefW(SubSeq([i \in 1..16 |->
                                     SubSeq(padded, 512 * (n - 1) + 32 * i - 31,
                                            512 * (n - 1) + 32 * i)], 1, 16), 80)}})

\* The 160 bits of SHA-1(bytes)
RefSha1(bytes) ==
  Only({Only({h[1] \o h[2] \o h[3] \o h[4] \o h[5] :
                h \in {RefHash(padded, Len(padded) \div 512)}}) :
          padded \in {RefPad(RefBits(bytes))}})

\* Base64 of a bit string: groups of six bits, the last one filled with zero bits,
\* then "=" up to a multiple of four characters
RefAlphabet == SubSeq(AsciiChars, 1, 64)
RefBase64(bits) ==
  LET groups == (Len(bits) + 5) \div 6
      filled == bits \o [i \in 1..(6 * groups - Len(bits)) |-> 0]
  IN  [i \in 1..groups |-> RefAlphabet[RefValue(SubSeq(filled, 6 * i - 5, 6 * i)) + 1]]
      \o [i \in 1..((4 - (groups % 4)) % 4) |-> "="]

\* Base64(SHA1(K || "258EAFA5-E914-47DA-95CA-C5AB0DC85B11"))
RefGuid ==
  <<"2","5","8","E","A","F","A","5","-","E","9","1","4","-","4","7","D","A","-",
    "9","5","C","A","-","C","5","A","B","0","D","C","8","5","B","1","1">>
RefAccept(K) == RefBase64(RefSha1(Bytes(K \o RefGuid)))

\* C23: for every client key, the accept value the server computes is
\* Base64(SHA1(K || GUID)); for the sample key dGhlIHNhbXBsZSBub25jZQ== it is
\* s3pPLMBiTxaQ9kYGzzhZRbK+xOo=.
C23_AcceptKey ==
  vRes.stage = "accept" =>
    /\ vRes.accept = RefAccept(vReq.key)
    /\ vReq.key = RfcKey =>
         vRes.accept = <<"s","3","p","P","L","M","B","i","T","x","a","Q","9","k","Y","G",
                         "z","z","h","Z","R","b","K","+","x","O","o","=">>

\* The accept value of the sample key has been computed
C23_Witness ==
  /\ vRes.stage = "accept"
  /\ vReq.key = RfcKey
  /\ Len(vRes.accept) = 28

(***************************************************************************)
(* The payload as a receiver reads it: little-endian fields at fixed        *)
(* offsets (0-based), signed 64-bit values in two's complement.             *)
(***************************************************************************)
RefLE(p, offset, n) ==
  LET v[i \in 0..n] == IF i = 0 THEN 0 ELSE p[offset + n - i + 1] + 256 * v[i - 1]
  IN  v[n]
RefU32(p, offset) == RefLE(p, offset, 4)
RefI64(p, offset) ==
  IF SubSeq(p, offset + 5, offset + 8) = <<0, 0, 0, 0>> THEN RefLE(p, offset, 4)
  ELSE -1 - RefLE([i \in 1..Len(p) |-> 255 - p[i]], offset, 8)
RefMagic == 66 * 16777216 + 70 * 65536 + 50 * 256 + 65

\* C24: every payload the flush builds is 40 + 4 * weightCount bytes long and reads
\* back, little-endian, as magic 0x42463241, version 1, weightCount, reserved 0, then
\* the frame index, the two time stamps and the weights of the result that
\* OnDeviceResults staged for that frame.
C24_PayloadLayout ==
  vRes.stage = "flushing" =>
    LET p == vRes.payload
        wc == vReq.weightCount
        k == vRes.flushed
        results == vReq.results[k]
    IN  /\ Len(p) = 40 + 4 * wc
        /\ RefU32(p, 0) = RefMagic
        /\ RefU32(p, 4) = 1
        /\ RefU32(p, 8) = wc
        /\ RefU32(p, 12) = 0
        /\ RefI64(p, 16) = vReq.first + k - 1
        /\ RefI64(p, 24) = results.tsCurrent
        /\ RefI64(p, 32) = results.tsNext
        /\ \A j \in 1..wc : SubSeq(p, 40 + 4 * j - 3, 40 + 4 * j) = results.weights[j]

\* The payload of a third frame with three weights and a negative time stamp
C24_Witness ==
  /\ vRes.stage = "flushing"
  /\ vRes.flushed = 3
  /\ vReq.weightCount = 3
  /\ vReq.results[3].tsCurrent < 0
  /\ Len(vRes.payload) = 52

\* The Binary frame worker c handles in this step reaches PushAudio
Pushes(c) == pc[c] = "loop" /\ cur'[c].kind = "PushAudio"

\* Error texts of PushAudio's input checks, and of the engine calls before the loop
InputErrors ==
  {"startSampleIndex must be >= 0",
   "PushAudio startSampleIndex is behind the accumulator (out-of-order audio)",
   "Audio gap too large"}
EngineErrors ==
  {"Failed to set CUDA device", "Failed to fill audio gap", "Failed to accumulate audio"}
ErrorsIn(log, texts) ==
  {i \in 1..Len(log) : log[i].op = "Text" /\ log[i].type = "Error" /\ log[i].text \in texts}

\* C25: with accumulated <= start <= accumulated + 160000 on an attached session,
\* PushAudio raises none of its input errors; unless the engine refuses a call, it
\* accumulates start - accumulated zeros (no call when that is 0) and then the n
\* converted samples, in this order; when it returns true the accumulated count is
\* start + n.
C25_GapThenSamples ==
  [][\A c \in Conns :
       Pushes(c) =>
         LET s == sessionIndex[c]
             accumulated == sess[s].eng.accumulated
             f == cur'[c]
             n == (f.size - 8) \div 2
             zeros == IF f.start > accumulated
                      THEN <<[zeros |-> TRUE, count |-> f.start - accumulated]>>
                      ELSE <<>>
             whole == Append(zeros, [zeros |-> FALSE, count |-> n])
         IN  (accumulated <= f.start /\ f.start <= accumulated + 160000) =>
               /\ ErrorsIn(reply'[c], InputErrors) = {}
               /\ f.accum # whole =>
                    /\ ~f.ret
                    /\ f.nErr = 1
                    /\ f.accum \in {<<>>, zeros}
                    /\ sockOk[c] => ErrorsIn(reply'[c], EngineErrors) # {}
               /\ f.accum = whole => sess'[s].eng.accumulated = f.start + n
               /\ f.ret => f.accum = whole]_vars

\* A call that started exactly 160000 samples past the accumulated ones returned true
C25_Witness ==
  \E c \in Conns :
    /\ cur[c].kind = "PushAudio"
    /\ cur[c].gap = 160000
    /\ cur[c].ret
    /\ cur[c].accum = <<[zeros |-> TRUE, count |-> 160000],
                        [zeros |-> FALSE, count |-> ChunkSamples]>>
    /\ cur[c].start > 160000

\* C26: a PushAudio call with start < 0, start below the accumulated count or a gap
\* above 160000 hands exactly one Error to the socket (the text of the failed input
\* check, or of SetCudaDevice when that fails first), returns false, accumulates
\* nothing, does not run the executor, and leaves every field of the session
\* (accumulator, pending queue, nextFrameIndex, socket binding) as it was.
C26_RejectedUnchanged ==
  [][\A c \in Conns :
       Pushes(c) =>
         LET s == sessionIndex[c]
             accumulated == sess[s].eng.accumulated
             f == cur'[c]
             log == reply'[c]
         IN  (f.start < 0 \/ f.start < accumulated \/ f.start - accumulated > 160000) =>
               /\ ~f.ret
               /\ f.nErr = 1
               /\ f.accum = <<>>
               /\ ~f.drove
               /\ sess'[s] = sess[s]
               /\ Len(log) = IF pc'[c] = "blocked" THEN 0 ELSE 1
               /\ \A i \in 1..Len(log) :
                    /\ log[i].op = "Text" /\ log[i].type = "Error"
                    /\ log[i].ok = sockOk'[c]
                    /\ log[i].text \in InputErrors \cup {"Failed to set CUDA device"}
                    /\ f.start < 0 => log[i].text = "startSampleIndex must be >= 0"]_vars

\* A call that started behind the accumulated samples of a session with a staged
\* frame left, answered by the Error of that check
C26_Witness ==
  \E c \in Conns :
    /\ cur[c].kind = "PushAudio"
    /\ cur[c].gap < 0
    /\ cur[c].start >= 0
    /\ sockOk[c]
    /\ reply[c] = <<TextMsg("Error",
                            "PushAudio startSampleIndex is behind the accumulator (out-of-order audio)",
                            TRUE)>>
    /\ sess[sessionIndex[c]].pendingFrames # <<>>

\* Frame indices of the binary frames a log says were delivered
Delivered(log) ==
  UNION {log[i].first..log[i].last : i \in {j \in 1..Len(log) : log[j].op = "Binary" /\ log[j].ok}}

\* C27: when PushAudio returns true the pending queue is empty, and the frames the
\* client was sent during the call are exactly those the queue held when the call
\* began and those staged during the call.
C27_TrueMeansFlushed ==
  [][\A c \in Conns :
       (Pushes(c) /\ cur'[c].ret) =>
         LET s == sessionIndex[c]
             before == sess[s].pendingFrames
         IN  /\ sess'[s].pendingFrames = <<>>
             /\ Delivered(reply'[c]) =
                  {before[i].frameIndex : i \in 1..Len(before)}
                  \cup (sess[s].nextFrameIndex..(sess'[s].nextFrameIndex - 1))]_vars

\* A call that returned true after staging more frames than the queue can hold at
\* once: all of them were sent in several flushes
C27_Witness ==
  \E c \in Conns :
    /\ cur[c].kind = "PushAudio"
    /\ cur[c].ret
    /\ sess[sessionIndex[c]].pendingFrames = <<>>
    /\ \E i \in 1..Len(reply[c]) :
         /\ reply[c][i].op = "Binary" /\ reply[c][i].ok
         /\ reply[c][i].last - reply[c][i].first >= kMaxStagedFrames

\* The entries of a log that are binary frames whose send failed
FailedFrames(log) == {i \in 1..Len(log) : log[i].op = "Binary" /\ ~log[i].ok}

\* C28: when the send of a frame fails inside a flush, no later frame is handed to
\* the socket in that call (the failed frame is the last entry of the call's output
\* and stays in the queue, which is not cleared), PushAudio returns false and makes
\* no further Execute call; from then on no binary frame is delivered on that
\* connection, and the read failure that follows starts the release of the session.
C28_SendFailureStopsFlush ==
  [][\A c \in Conns :
       /\ (Pushes(c) /\ FailedFrames(reply'[c]) # {}) =>
            LET log == reply'[c]
                s == sessionIndex[c]
                pending == sess'[s].pendingFrames
            IN  /\ FailedFrames(log) = {Len(log)}
                /\ log[Len(log)].first = log[Len(log)].last
                /\ \E k \in 1..Len(pending) :
                     /\ pending[k].frameIndex = log[Len(log)].first
                     /\ \A j \in 1..(k - 1) :
                          pending[j].frameIndex \in Delivered(log)
                /\ ~cur'[c].ret
                /\ ~cur'[c].droveOn
                /\ ~sockOk'[c]
       /\ (Pushes(c) /\ ~sockOk[c]) => Delivered(reply'[c]) = {}
       /\ (pc[c] = "loop" /\ ~sockOk[c] /\ sessionIndex[c] # None
           /\ cur'[c].kind = "ReadFail") =>
            /\ pc'[c] = "rel_stop"
            /\ idx'[c] = sessionIndex[c]
            /\ after'[c] = "exit"]_vars

\* A flush inside the loop delivered some frames and then failed to send one, and
\* frames the executor has not run yet remain
C28_Witness ==
  \E c \in Conns :
    /\ cur[c].kind = "PushAudio"
    /\ ~cur[c].ret
    /\ Len(reply[c]) = 2
    /\ reply[c][1].op = "Binary" /\ reply[c][1].ok
    /\ reply[c][2].op = "Binary" /\ ~reply[c][2].ok
    /\ Len(sess[sessionIndex[c]].pendingFrames) = kFlushThresholdFrames
    /\ FramesAvailable(sess[sessionIndex[c]].eng) > sess[sessionIndex[c]].eng.executed

\* C29: the frames of the pending queue carry the slots 0, 1, ..., size - 1 in queue
\* order, so that every slot is below kMaxStagedFrames and no two frames share one.
C29_SlotsDense ==
  vRes.stage = "results" =>
    LET pending == vRes.s.pendingFrames
    IN  /\ \A i \in 1..Len(pending) : pending[i].slotIndex = i - 1
        /\ \A i \in 1..Len(pending) : pending[i].slotIndex < kMaxStagedFrames
        /\ \A i, j \in 1..Len(pending) :
             pending[i].slotIndex = pending[j].slotIndex => i = j

\* A full queue whose first frame is not the session's first: slots were taken,
\* given back by a flush and taken again
C29_Witness ==
  /\ vRes.stage = "results"
  /\ Len(vRes.s.pendingFrames) = kMaxStagedFrames
  /\ vRes.s.pendingFrames[1].frameIndex > 0
  /\ vRes.s.pendingFrames[kMaxStagedFrames].slotIndex = kMaxStagedFrames - 1

\* The Error text OnDeviceResults sends when it declines, by the first test that fails
DeclineText(fault, pending) ==
  IF fault = "weightSize" THEN "Unexpected weight vector size from executor"
  ELSE IF Len(pending) >= 256 THEN "Too many pending frames (client too slow?)"
  ELSE "CopyDeviceToHost failed"

\* C30: a call of OnDeviceResults with a non-empty result on a detached session, with
\* a wrong weight count, on a queue of 256 frames or with a failing copy returns
\* false, leaves the pending queue and nextFrameIndex as they were and, unless the
\* session is detached, hands exactly one Error (naming the failed test) to the
\* socket; in every other case the result is staged and the call returns true.
C30_DeclineIsLoud ==
  [][(vRes'.stage = "results" /\ vRes'.call.kind = "result"
      /\ vRes'.call.fault # "emptyWeights") =>
       LET s == vRes.s
           call == vRes'.call
           declined == \/ s.wsSocket = None
                       \/ call.fault \in {"weightSize", "copy"}
                       \/ Len(s.pendingFrames) >= 256
       IN  /\ declined =>
                /\ ~call.ret
                /\ vRes'.s.pendingFrames = s.pendingFrames
                /\ vRes'.s.nextFrameIndex = s.nextFrameIndex
                /\ s.wsSocket = None => call.nErr = 0 /\ call.out = <<>>
                /\ s.wsSocket # None =>
                     /\ call.nErr = 1
                     /\ call.out = <<TextMsg("Error",
                                             DeclineText(call.fault, s.pendingFrames),
                                             vReq.alive)>>
           /\ ~declined =>
                /\ call.ret
                /\ call.nErr = 0
                /\ Len(vRes'.s.pendingFrames) = Len(s.pendingFrames) + 1
                /\ vRes'.s.nextFrameIndex = s.nextFrameIndex + 1]_vars

\* A result declined because the queue holds 256 frames, with the Error delivered
C30_Witness ==
  /\ vRes.stage = "results"
  /\ vRes.call.kind = "result"
  /\ vRes.call.fault = "none"
  /\ ~vRes.call.ret
  /\ Len(vRes.s.pendingFrames) = 256
  /\ vRes.call.out = <<TextMsg("Error", "Too many pending frames (client too slow?)", TRUE)>>

\* C31: the k-th frame staged since the session was attached has frameIndex k - 1,
\* and a callback with an empty weight view on an attached session returns true,
\* sends nothing and leaves the pending queue and nextFrameIndex as they were.
C31_FrameIndexGapFree ==
  [][(vRes'.stage = "results" /\ vRes'.call.kind = "result") =>
       LET s == vRes.s
           later == vRes'.s
           call == vRes'.call
       IN  /\ Len(later.pendingFrames) > Len(s.pendingFrames) =>
                /\ Len(later.pendingFrames) = Len(s.pendingFrames) + 1
                /\ later.pendingFrames[Len(later.pendingFrames)].frameIndex = vRes.staged
                /\ later.nextFrameIndex = vRes.staged + 1
           /\ (call.fault = "emptyWeights" /\ s.wsSocket # None) =>
                /\ call.ret
                /\ call.out = <<>>
                /\ later.pendingFrames = s.pendingFrames
                /\ later.nextFrameIndex = s.nextFrameIndex]_vars

\* An empty weight view arrived after the first frame of an attachment was staged
C31_Witness ==
  /\ vRes.stage = "results"
  /\ vRes.call.kind = "result"
  /\ vRes.call.fault = "emptyWeights"
  /\ vRes.call.ret
  /\ vRes.staged = 1
  /\ Len(vRes.s.pendingFrames) = 1
  /\ vRes.s.pendingFrames[1].frameIndex = 0

\* C32: when ResetForReuse fails inside Acquire, the popped index is pushed back (the
\* free stack gains exactly that index; it is the stack Acquire found if no other
\* worker touched it meanwhile), the session is not started (its socket pointer is
\* null before and after), and Acquire returns empty: the connection stays unbound
\* and is told the server is busy.
C32_FailedResetPushesBack ==
  [][\A c \in Conns :
       (pc[c] = "acq_pushback" /\ pc'[c] # "acq_pushback") =>
         /\ idx[c] \notin Range(freeIndices)
         /\ freeIndices' = Append(freeIndices, idx[c])
         /\ freeIndices = PopFree(cur[c].free) => freeIndices' = cur[c].free
         /\ sess[idx[c]].wsSocket = None
         /\ sess'[idx[c]].wsSocket = None
         /\ sessionIndex[c] = None /\ sessionIndex'[c] = None
         /\ \A d \in Conns : sessionIndex'[d] # idx[c]
         /\ reply'[c] = <<TextMsg("Error", "Server busy (no free sessions)", sockOk[c])>>
         /\ pc'[c] = "handled"]_vars

\* An Acquire gave its index back after a failed reset while the other session of
\* the pool is attached
C32_Witness ==
  \E c \in Conns :
    /\ pc[c] = "handled" /\ after[c] = "resetfail"
    /\ cur[c].kind = "StartSession"
    /\ freeIndices = cur[c].free
    /\ Len(freeIndices) = 1
    /\ \E s \in Sessions : sess[s].wsSocket # None

\* C33: ResetForReuse is idempotent: after two resets in succession that both
\* succeed the session is as the first one left it (pending queue empty,
\* nextFrameIndex 0, executor and accumulators reset with one closed neutral
\* emotion), and the socket pointer and the session id are those the session
\* had before the first reset.
C33_ResetIdempotent ==
  vRes.stage = "twice" =>
    /\ vRes.s = vRes.first
    /\ vRes.s.pendingFrames = <<>>
    /\ vRes.s.nextFrameIndex = 0
    /\ vRes.s.eng = EngineReady
    /\ vRes.s.wsSocket = vRes.before.wsSocket
    /\ vRes.s.sessionId = vRes.before.sessionId

\* Two resets of an attached session that had frames pending, frames counted,
\* audio accumulated and frames executed
C33_Witness ==
  /\ vRes.stage = "twice"
  /\ vRes.before.wsSocket # None
  /\ vRes.before.pendingFrames # <<>>
  /\ vRes.before.nextFrameIndex > 0
  /\ vRes.before.eng.accumulated > 0
  /\ vRes.before.eng.executed > 0

\* C34: a Binary message reaches Session.PushAudio only if a session is bound to
\* the connection and the payload has at least 8 bytes and an even number of bytes
\* after them; every other Binary message is answered by exactly one Error, with
\* no PushAudio call and with sessions, free stack and binding unchanged.
C34_BinaryGate ==
  [][\A c \in Conns :
       (pc[c] = "loop" /\ cur'[c].kind \in {"Binary", "PushAudio"}) =>
         LET size == cur'[c].size
             passes == sessionIndex[c] # None /\ size >= 8 /\ (size - 8) % 2 = 0
             log == reply'[c]
         IN  /\ cur'[c].kind = "PushAudio" <=> passes
             /\ ~passes =>
                   /\ Len(log) = 1
                   /\ log[1].op = "Text" /\ log[1].type = "Error"
                   /\ log[1].text = IF sessionIndex[c] = None
                                    THEN "StartSession must be called before PushAudio"
                                    ELSE "Invalid PushAudio binary payload"
                   /\ sess' = sess
                   /\ freeIndices' = freeIndices
                   /\ sessionIndex' = sessionIndex
                   /\ pc'[c] = "handled"]_vars

\* A Binary message of 9 bytes on a bound connection, answered by the Error of
\* the payload check
C34_Witness ==
  \E c \in Conns :
    /\ cur[c].kind = "Binary"
    /\ cur[c].size = 9
    /\ sessionIndex[c] # None
    /\ reply[c] = <<TextMsg("Error", "Invalid PushAudio binary payload", TRUE)>>

\* C35: a Ping frame is answered by exactly one Pong frame with the payload of
\* the Ping, whether or not a session is bound to the connection; binding,
\* sessions and free stack stay as they were and the loop continues.
C35_PingPong ==
  [][\A c \in Conns :
       (pc[c] = "loop" /\ cur'[c].kind = "Ping") =>
         /\ Len(reply'[c]) = 1
         /\ reply'[c][1].op = "Pong"
         /\ reply'[c][1].text = cur'[c].payload
         /\ sessionIndex' = sessionIndex
         /\ sess' = sess
         /\ freeIndices' = freeIndices
         /\ pc'[c] = "handled"]_vars

\* A Ping with a payload answered on a bound connection
C35_Witness ==
  \E c \in Conns :
    /\ cur[c].kind = "Ping"
    /\ cur[c].payload = "p"
    /\ sessionIndex[c] # None
    /\ reply[c] = <<[CtlMsg("Pong", TRUE) EXCEPT !.text = "p"]>>

\* C36: RecvUntil returns success only if the delimiter lies within the first
\* maxBytes bytes received, and never with more than maxBytes bytes accumulated.
C36_CapHolds ==
  vRes.stage = "ok" =>
    /\ vReq.end <= HandshakeMaxBytes
    /\ vRes.out <= HandshakeMaxBytes

\* C38: no byte of the client's stream after the upgrade request is lost: the
\* first ReadFrame reads from the first byte after the request's terminating
\* blank line, also when the client sent that frame along with the request.
C38_NoByteLost ==
  vRes.stage = "frame" => vRes.readFrom = vReq.end + 1

\* The header fields of a request: the lines with a colon, by lower-case name
Fields(req, name) ==
  {i \in 1..Len(req.lines) :
     req.lines[i].sep # <<>> /\ ToLower(req.lines[i].name) = ToLower(name)}
HasUpgradeWebsocket(req) ==
  \E i \in Fields(req, UpgradeName) : ToLower(Trim(req.lines[i].value)) = WebsocketText
HasKey(req) == \E i \in Fields(req, KeyName) : Trim(req.lines[i].value) # <<>>
LastKeyNotEmpty(req) ==
  \E i \in Fields(req, KeyName) :
    /\ Trim(req.lines[i].value) # <<>>
    /\ \A j \in Fields(req, KeyName) : j <= i
Untouched ==
  /\ freeIndices = InitFree(MaxSessions)
  /\ \A s \in DOMAIN sess : sess[s] = SessionInit
  /\ \A c \in Conns : sessionIndex[c] = None

\* C37 as stated: PerformServerHandshake sends the 101 response and returns true
\* if and only if the header block has an Upgrade header with the value
\* websocket (in any case) and a Sec-WebSocket-Key header that is not empty;
\* otherwise nothing is sent, the worker ends and no session is acquired.
C37_AsStated ==
  vRes.stage # "request" =>
    /\ vRes.ok <=> (HasUpgradeWebsocket(vReq) /\ HasKey(vReq))
    /\ vRes.ok => vRes.sent = <<CtlMsg("Http101", TRUE)>>
    /\ ~vRes.ok => vRes.sent = <<>> /\ vRes.stage # "loop" /\ Untouched

\* C37: PerformServerHandshake hands the 101 response to SendAll if and only if
\* the header block (the lines before the first empty one) has an Upgrade header
\* with the value websocket (in any case) and its last Sec-WebSocket-Key header
\* is not empty, and it returns true if and only if, besides, SendAll sent the
\* response; when the headers do not qualify nothing is sent; whenever it returns
\* false the worker ends and no session is acquired.
C37_HandshakeIff ==
  vRes.stage # "request" =>
    LET qualifies == HasUpgradeWebsocket(vReq) /\ LastKeyNotEmpty(vReq)
    IN  /\ vRes.sent = IF qualifies THEN <<CtlMsg("Http101", vRes.alive)>> ELSE <<>>
        /\ vRes.ok <=> (qualifies /\ vRes.alive)
        /\ vRes.stage = "loop" => vRes.ok
        /\ vRes.stage = "returned" => ~vRes.ok /\ Untouched

\* A handshake that succeeded on a lower-case Upgrade name with a mixed-case
\* value and two key headers, the first one empty, with bytes after the blank line
C37_Witness ==
  /\ vRes.stage = "loop"
  /\ vRes.sent = <<CtlMsg("Http101", TRUE)>>
  /\ Len(vReq.lines) = 3
  /\ vReq.lines[1] = Header(KeyName, <<":">>, <<>>)
  /\ vReq.lines[2].name = ToLower(UpgradeName)
  /\ vReq.lines[3].name = ToLower(KeyName)
  /\ vReq.tail # <<>>

C40_OtherOpcodeIgnored ==
  [][\A c \in Conns :
       (pc[c] = "loop" /\ cur'[c].kind = "Other" /\ "frame" \in DOMAIN cur'[c]) =>
         /\ cur'[c].frame.fin
         /\ cur'[c].opcode = cur'[c].frame.opcode
         /\ cur'[c].opcode \in (0..15) \ {OpPing, OpClose, OpText, OpBinary}
         /\ reply'[c] = <<>>
         /\ wire' = wire
         /\ sessionIndex' = sessionIndex
         /\ sess' = sess
         /\ freeIndices' = freeIndices
         /\ pc'[c] = "handled"]_vars

\* A Pong frame with a payload was ignored on a connection with a bound session
C40_Witness ==
  /\ cur[1].kind = "Other"
  /\ "frame" \in DOMAIN cur[1]
  /\ cur[1].opcode = 10
  /\ cur[1].frame.declared = 125
  /\ sessionIndex[1] # None
  /\ pc[1] = "handled"
  /\ reply[1] = <<>>

====
